---- MODULE Spec2Model ----
(***************************************************************************)
(* A model of app/services/sp500_service.py: the SP500Service object, its  *)
(* refresh coroutine update_sp500_data, the background task                *)
(* start_background_updates that app/main.py creates at startup, and the   *)
(* readers of app/routers/sp500.py, all running on one asyncio event loop. *)
(*                                                                         *)
(* Numbers: change_percent is kept in hundredths of a percent (the code    *)
(* rounds it to two decimals), volume in shares.                           *)
(***************************************************************************)
EXTENDS Integers, Sequences, FiniteSets, TLC

(***************************************************************************)
(* Bounds of the model and constants of the program.                       *)
(***************************************************************************)
\* sp500_symbols[:50]: the universe a refresh of the service ranks.
NumSymbols == 50
\* The slices [-10:] and [:10]: the length of each ranking.
TopN == 10
\* The sectors of _generate_sector_performance and the four market indices.
NumSectors == 11
NumIndices == 4
\* Universes of the ranking specification: 2*TopN .. 2*TopN + ExtraUniverse
\* symbols, and the service's own NumSymbols.
ExtraUniverse == 1
\* Calls of update_sp500_data per behaviour (timer, explicit triggers), the
\* initial update apart.
MaxCalls == 2
\* Series of the analysis specification: up to LongWindow + ExtraBars prices,
\* the lowest price BasePrice cents; the array oscillator is computed for
\* series of up to MaxRsiBars prices.
ExtraBars == 1
BasePrice == 100
MaxRsiBars == 17
\* The refreshes of one process run whose quotes are compared.
MaxRefreshes == 2
\* The bars of one call of get_stock_data that are generated, and the steps
\* in one unit of price of the floats of that call.
MaxBars == 3
Grid == 10000

Min(a, b) == IF a < b THEN a ELSE b
Max(a, b) == IF a > b THEN a ELSE b
Abs(a) == IF a < 0 THEN 0 - a ELSE a

(***************************************************************************)
(* Numbers.  A Python float or numpy float64 is modelled by the rational   *)
(* it stands for, [num, den] in lowest terms with den > 0; an operation    *)
(* that raises yields [raised |-> the exception] instead of a number.      *)
(***************************************************************************)
RECURSIVE GCD(_, _)
GCD(a, b) == IF b = 0 THEN a ELSE GCD(b, a % b)

Rat(n, d) ==
    LET g == GCD(Abs(n), Abs(d))
        sgn == IF d < 0 THEN 0 - 1 ELSE 1
    IN  [num |-> (sgn * n) \div g, den |-> (sgn * d) \div g]
RInt(n) == [num |-> n, den |-> 1]
IsNumber(x) == DOMAIN x = {"num", "den"}
Raised(e) == [raised |-> e]

\* Common factors are cancelled before multiplying, as the products of the
\* uncancelled terms need not fit TLC's integers.
RAdd(x, y) ==
    LET g == GCD(x.den, y.den)
    IN  Rat(x.num * (y.den \div g) + y.num * (x.den \div g), (x.den \div g) * y.den)
RNeg(x) == [num |-> 0 - x.num, den |-> x.den]
RSub(x, y) == RAdd(x, RNeg(y))
RMul(x, y) ==
    LET g1 == GCD(Abs(x.num), y.den)
        g2 == GCD(Abs(y.num), x.den)
    IN  Rat((x.num \div g1) * (y.num \div g2), (x.den \div g2) * (y.den \div g1))
RLt(x, y) == RSub(x, y).num < 0
RLe(x, y) == RSub(x, y).num <= 0
RMin(x, y) == IF RLt(y, x) THEN y ELSE x
RMax(x, y) == IF RLt(x, y) THEN y ELSE x
\* a / b: ZeroDivisionError for a zero divisor.
TrueDiv(x, y) ==
    IF y.num = 0 THEN Raised("ZeroDivisionError")
    ELSE RMul(x, Rat(y.den, y.num))

\* The values v with v * 100 half way between two integers whose float is
\* not the value itself and lies above it (below it); round(v, 2) goes by
\* the float.  Among the quotients of two counts of at most 51 quotes these
\* are the only ones that round(v, 2) does not round to the even hundredth.
FloatAboveHalf == {[num |-> 1, den |-> 40], [num |-> 9, den |-> 40]}
FloatBelowHalf == {[num |-> 3, den |-> 40], [num |-> 7, den |-> 40]}

\* round(x, 2): the nearest multiple of 0.01, a tie going to the even one.
round2(x) ==
    IF ~IsNumber(x) THEN x
    ELSE LET v == x.num * 100
             q == v \div x.den
             r == v % x.den
             up == \/ 2 * r > x.den
                   \/ 2 * r = x.den /\ x \in FloatAboveHalf
                   \/ 2 * r = x.den /\ x \notin FloatBelowHalf /\ q % 2 = 1
         IN  Rat(IF up THEN q + 1 ELSE q, 100)

(***************************************************************************)
(* Python list operations used by _generate_market_data.                   *)
(***************************************************************************)
\* lst[:n]
FirstN(lst, n) == SubSeq(lst, 1, Min(n, Len(lst)))
\* lst[-n:]
LastN(lst, n) == SubSeq(lst, Max(1, Len(lst) - n + 1), Len(lst))
\* lst[::-1]
Reversed(lst) == [i \in 1..Len(lst) |-> lst[Len(lst) + 1 - i]]

\* The order sorted() keeps between an element e already placed and a later
\* element q of the input: e stays in front of q unless q must go first.
\* Equal keys keep their input order, with and without reverse=True.
StaysBefore_Unstable(e, q, key, reverse) ==
    IF reverse THEN e[key] > q[key] ELSE e[key] < q[key]
StaysBefore(e, q, key, reverse) ==
    IF reverse THEN e[key] >= q[key] ELSE e[key] <= q[key]

\* sorted(lst, key=lambda x: x[key], reverse=reverse): a stable sort.  The
\* element at index i of the input lands behind every earlier element that
\* stays before it and behind every later element that must go first.
Sorted(lst, key, reverse) ==
    LET n == Len(lst)
        place(i) ==
            1 + Cardinality({j \in 1..(i - 1) : StaysBefore(lst[j], lst[i], key, reverse)})
              + Cardinality({j \in (i + 1)..n : ~StaysBefore(lst[i], lst[j], key, reverse)})
        pos == SubSeq([i \in 1..n |-> place(i)], 1, n)
    IN  SubSeq([p \in 1..n |-> lst[CHOOSE i \in 1..n : pos[i] = p]], 1, n)

(***************************************************************************)
(* The random draws of one refresh.  A draw d fixes every random.uniform   *)
(* and random.randint result of one call of _generate_market_data through  *)
(* a few small parameters: the change of symbol i is (a*i + b) mod m,      *)
(* shifted to straddle zero, except for one symbol p that draws w; the     *)
(* volume is (c*i) mod m2.  m = 1 gives all-equal changes, small m gives   *)
(* ties, m above the universe size gives pairwise distinct changes.        *)
(***************************************************************************)
\* random.randint(1000000, 50000000): the least volume.
VolumeBase == 1000000

DrawChange(d, i) ==
    IF i = d.p THEN d.w ELSE ((d.a * i + d.b) % d.m) - 1
DrawVolume(d, i) == VolumeBase + ((d.c * i) % d.m2)
DrawSector(d, s) == (((d.a + d.c) * s + d.b) % 3) - 1
DrawIndex(d, x) == ((d.a * x + d.c) % 3) - 1

\* stocks_data.append({...}) for one symbol (lines 79-97).
Quote(d, i) ==
    [symbol |-> i, change_percent |-> DrawChange(d, i), volume |-> DrawVolume(d, i)]

\* _generate_sector_performance: one entry per sector, sorted by change, descending.
generate_sector_performance(d) ==
    Sorted([s \in 1..NumSectors |-> [sector |-> s, change_percent |-> DrawSector(d, s)]],
           "change_percent", TRUE)

\* _generate_market_indices: one entry per index.
generate_market_indices(d) ==
    [x \in 1..NumIndices |-> [change_percent |-> DrawIndex(d, x)]]

\* sorted_by_change[-10:][::-1]
TopGainers_NotReversed(sorted_by_change) == LastN(sorted_by_change, TopN)
TopGainers(sorted_by_change) == Reversed(LastN(sorted_by_change, TopN))
\* sorted_by_change[:10]
TopLosers_OneMore(sorted_by_change) == FirstN(sorted_by_change, TopN + 1)
TopLosers(sorted_by_change) == FirstN(sorted_by_change, TopN)
\* sorted_by_volume[:10]
MostActive(sorted_by_volume) == FirstN(sorted_by_volume, TopN)

\* _generate_market_data over the first n symbols, with the draws d.
generate_market_data(n, d) ==
    LET stocks_data == [i \in 1..n |-> Quote(d, i)]
        sorted_by_change == Sorted(stocks_data, "change_percent", FALSE)
        sorted_by_volume == Sorted(stocks_data, "volume", TRUE)
    IN  [all_stocks |-> stocks_data,
         top_gainers |-> TopGainers(sorted_by_change),
         top_losers |-> TopLosers(sorted_by_change),
         most_active |-> MostActive(sorted_by_volume),
         sector_performance |-> generate_sector_performance(d),
         market_indices |-> generate_market_indices(d)]

\* _calculate_market_summary: the counts by sign of change_percent, and the
\* advance/decline ratio of line 130.
calculate_market_summary_NoMax(market_data) ==
    LET all_stocks == market_data.all_stocks
        gainers_count == Cardinality({i \in 1..Len(all_stocks) : all_stocks[i].change_percent > 0})
        losers_count == Cardinality({i \in 1..Len(all_stocks) : all_stocks[i].change_percent < 0})
    IN  [total_companies |-> Len(all_stocks),
         advancing_stocks |-> gainers_count,
         declining_stocks |-> losers_count,
         unchanged_stocks |-> Len(all_stocks) - gainers_count - losers_count,
         advance_decline_ratio |->
             round2(TrueDiv(RInt(gainers_count), RInt(losers_count)))]
calculate_market_summary_LosersNotUp(market_data) ==
    LET all_stocks == market_data.all_stocks
        gainers_count == Cardinality({i \in 1..Len(all_stocks) : all_stocks[i].change_percent > 0})
        losers_count == Cardinality({i \in 1..Len(all_stocks) : all_stocks[i].change_percent <= 0})
    IN  [total_companies |-> Len(all_stocks),
         advancing_stocks |-> gainers_count,
         declining_stocks |-> losers_count,
         unchanged_stocks |-> Len(all_stocks) - gainers_count - losers_count,
         advance_decline_ratio |->
             round2(TrueDiv(RInt(gainers_count), RInt(Max(losers_count, 1))))]
calculate_market_summary(market_data) ==
    LET all_stocks == market_data.all_stocks
        gainers_count == Cardinality({i \in 1..Len(all_stocks) : all_stocks[i].change_percent > 0})
        losers_count == Cardinality({i \in 1..Len(all_stocks) : all_stocks[i].change_percent < 0})
    IN  [total_companies |-> Len(all_stocks),
         advancing_stocks |-> gainers_count,
         declining_stocks |-> losers_count,
         unchanged_stocks |-> Len(all_stocks) - gainers_count - losers_count,
         advance_decline_ratio |->
             round2(TrueDiv(RInt(gainers_count), RInt(Max(losers_count, 1))))]

\* The dict update_sp500_data assigns to self.sp500_data (lines 55-63).
BuildSnapshot_NoSummary(now, market_summary, market_data) ==
    [last_update |-> now,
     top_gainers |-> market_data.top_gainers,
     top_losers |-> market_data.top_losers,
     most_active |-> market_data.most_active,
     sector_performance |-> market_data.sector_performance,
     market_indices |-> market_data.market_indices]
BuildSnapshot(now, market_summary, market_data) ==
    [last_update |-> now,
     market_summary |-> market_summary,
     top_gainers |-> market_data.top_gainers,
     top_losers |-> market_data.top_losers,
     most_active |-> market_data.most_active,
     sector_performance |-> market_data.sector_performance,
     market_indices |-> market_data.market_indices]

(***************************************************************************)
(* The prices of a quote (lines 80-96 of _generate_market_data).  The base  *)
(* price comes from hash(symbol): hash() of a str is salted with the        *)
(* process's hash seed (PYTHONHASHSEED, drawn at random at startup when     *)
(* unset), so its value belongs to one run of the process.                  *)
(***************************************************************************)
HashSeeds == {0, 1, 2}
PricedSymbols == {"AAPL", "MSFT", "GOOGL", "AMZN", "NVDA"}

\* hash(s) % 1200 in CPython 3.11 under PYTHONHASHSEED = 0, 1 and 2.
StrHash ==
    [seed \in HashSeeds |-> [s \in PricedSymbols |->
        CASE seed = 0 ->
               (CASE s = "AAPL" -> 722 [] s = "MSFT" -> 585 [] s = "GOOGL" -> 497
                  [] s = "AMZN" -> 751 [] s = "NVDA" -> 744)
          [] seed = 1 ->
               (CASE s = "AAPL" -> 289 [] s = "MSFT" -> 1012 [] s = "GOOGL" -> 1110
                  [] s = "AMZN" -> 223 [] s = "NVDA" -> 454)
          [] seed = 2 ->
               (CASE s = "AAPL" -> 1145 [] s = "MSFT" -> 910 [] s = "GOOGL" -> 722
                  [] s = "AMZN" -> 395 [] s = "NVDA" -> 695)]]

\* Line 80: base_price = 50 + (hash(symbol) % 300).
base_price(symbol, seed) == 50 + (StrHash[seed][symbol] % 300)

\* The draws of one symbol in one refresh: random.uniform(-5.0, 5.0) in
\* hundredths of a percent, and the two random.randint.
QuoteDraws ==
    {[pct |-> 0 - 500, volume |-> VolumeBase, shares |-> 1000000],
     [pct |-> 136, volume |-> VolumeBase + 7, shares |-> 2000000],
     [pct |-> 500, volume |-> VolumeBase + 7, shares |-> 1000000]}

\* Lines 80-97 for one symbol: the dict appended to stocks_data, with the
\* local base_price beside it.
PricedQuote(symbol, seed, draw) ==
    LET daily_change_pct == Rat(draw.pct, 100)
        daily_change == RMul(RInt(base_price(symbol, seed)),
                             TrueDiv(daily_change_pct, RInt(100)))
        current_price == RAdd(RInt(base_price(symbol, seed)), daily_change)
    IN  [symbol |-> symbol,
         base_price |-> base_price(symbol, seed),
         price |-> round2(current_price),
         change |-> round2(daily_change),
         change_percent |-> round2(daily_change_pct),
         volume |-> draw.volume,
         market_cap |-> RMul(current_price, RInt(draw.shares))]

(***************************************************************************)
(* MarketDataService.get_stock_data (market_data.py).  The floats of this   *)
(* random walk are modelled by whole numbers of 1/Grid, a product being     *)
(* rounded down to one; percentages are in hundredths of a percent.         *)
(***************************************************************************)
\* x * bp / 10000, rounded down.
Scaled(x, bp) == (x \div 10000) * bp + ((x % 10000) * bp) \div 10000

\* Line 18: base_price = 100 + (hash(symbol) % 400).
stock_base_price(symbol, seed) == 100 + (StrHash[seed][symbol] % 400)

\* Lines 60-72: the days of a period, 30 for a period not in period_map.
PeriodMap ==
    [p \in {"5d", "1w", "1mo", "3mo", "6mo", "1y", "2y", "5y", "max"} |->
        CASE p = "5d" -> 5 [] p = "1w" -> 7 [] p = "1mo" -> 30 [] p = "3mo" -> 90
          [] p = "6mo" -> 180 [] p = "1y" -> 252 [] p = "2y" -> 504 [] p = "5y" -> 1260
          [] p = "max" -> 2520]
NumBars(period) ==
    IF period = "1d" THEN 13
    ELSE IF period \in DOMAIN PeriodMap THEN PeriodMap[period] ELSE 30

\* The draws of one bar: random.uniform for the change and the two
\* extensions, random.randint for the volume; the ends of each range and a
\* value between.
IntradayDraws ==
    {[change |-> 0 - 300, high_extension |-> 20, low_extension |-> 100, volume |-> 500000],
     [change |-> 0, high_extension |-> 20, low_extension |-> 20, volume |-> 2000000],
     [change |-> 1, high_extension |-> 100, low_extension |-> 20, volume |-> 500000],
     [change |-> 300, high_extension |-> 100, low_extension |-> 100, volume |-> 2000000]}
DailyDraws ==
    {[change |-> 0 - 800, high_extension |-> 50, low_extension |-> 250, volume |-> 1000000],
     [change |-> 0, high_extension |-> 50, low_extension |-> 50, volume |-> 10000000],
     [change |-> 1, high_extension |-> 250, low_extension |-> 50, volume |-> 1000000],
     [change |-> 1000, high_extension |-> 250, low_extension |-> 250, volume |-> 10000000]}
BarDraws(period) == IF period = "1d" THEN IntradayDraws ELSE DailyDraws

\* One pass of the loop (lines 31-57, and 76-103 with other ranges): the
\* dict appended to prices and the next current_price.
MakeBar_KeepPrice(current_price, draw) ==
    LET open_price == current_price
        close_price == open_price + Scaled(open_price, draw.change)
        min_price == Min(open_price, close_price)
        max_price == Max(open_price, close_price)
        high_price == max_price + Scaled(max_price, draw.high_extension)
        low_price == min_price - Scaled(min_price, draw.low_extension)
    IN  [bar |-> [open |-> round2(Rat(open_price, Grid)),
                  high |-> round2(Rat(high_price, Grid)),
                  low |-> round2(Rat(low_price, Grid)),
                  close |-> round2(Rat(close_price, Grid)),
                  volume |-> draw.volume],
         current_price |-> current_price]
MakeBar(current_price, draw) ==
    LET open_price == current_price
        close_price == open_price + Scaled(open_price, draw.change)
        min_price == Min(open_price, close_price)
        max_price == Max(open_price, close_price)
        high_price == max_price + Scaled(max_price, draw.high_extension)
        low_price == min_price - Scaled(min_price, draw.low_extension)
    IN  [bar |-> [open |-> round2(Rat(open_price, Grid)),
                  high |-> round2(Rat(high_price, Grid)),
                  low |-> round2(Rat(low_price, Grid)),
                  close |-> round2(Rat(close_price, Grid)),
                  volume |-> draw.volume],
         current_price |-> close_price]

(***************************************************************************)
(* The analysis of one price series: simple_technical_analysis.py and the  *)
(* helpers of technical_analysis.py.  A series is a sequence of prices,    *)
(* each a number of whole cents.                                           *)
(***************************************************************************)
\* The default period of both oscillators, and the windows of the two
\* moving averages.
RsiPeriod == 14
ShortWindow == 20
LongWindow == 50
\* calculate_basic_indicators and calculate_indicators want 20 prices,
\* generate_simple_predictions 10.
MinBars == 20
MinPredictionBars == 10
\* The two halves of the prices generate_simple_predictions looks at.
TrendWindow == 5
\* Trading days in a year, and the unit in which the squares of the daily
\* returns are summed: the sixth decimal.
TradingDays == 252
Micro == 1000000

\* None, and math.sqrt(x), kept as the number it is the root of.
None == [none |-> TRUE]
\* The empty dict {}.
EmptyRecord == [k \in {} |-> 0]
Sqrt(x) == [sqrt_of |-> x]

\* sum, max and min of lst[lo..hi], by halves.
RECURSIVE RSumRange(_, _, _)
RSumRange(lst, lo, hi) ==
    IF lo > hi THEN RInt(0)
    ELSE IF lo = hi THEN lst[lo]
    ELSE LET mid == (lo + hi) \div 2
         IN  RAdd(RSumRange(lst, lo, mid), RSumRange(lst, mid + 1, hi))
RECURSIVE RMaxRange(_, _, _)
RMaxRange(lst, lo, hi) ==
    IF lo = hi THEN lst[lo]
    ELSE LET mid == (lo + hi) \div 2
         IN  RMax(RMaxRange(lst, lo, mid), RMaxRange(lst, mid + 1, hi))
RECURSIVE RMinRange(_, _, _)
RMinRange(lst, lo, hi) ==
    IF lo = hi THEN lst[lo]
    ELSE LET mid == (lo + hi) \div 2
         IN  RMin(RMinRange(lst, lo, mid), RMinRange(lst, mid + 1, hi))
\* sum(lst) of a list of numbers.
RSum(lst) == RSumRange(lst, 1, Len(lst))

\* _calculate_simple_rsi(prices), period = 14.
calculate_simple_rsi_NoZeroLossCase(prices) ==
    LET n == Len(prices)
        change == [i \in 1..(n - 1) |-> RSub(prices[i + 1], prices[i])]
        gains == [i \in 1..(n - 1) |-> IF change[i].num > 0 THEN change[i] ELSE RInt(0)]
        losses == [i \in 1..(n - 1) |-> IF change[i].num > 0 THEN RInt(0) ELSE RNeg(change[i])]
        avg_gain == TrueDiv(RSum(LastN(gains, RsiPeriod)), RInt(RsiPeriod))
        avg_loss == TrueDiv(RSum(LastN(losses, RsiPeriod)), RInt(RsiPeriod))
    IN  IF n < RsiPeriod + 1 THEN RInt(50)
        ELSE IF n - 1 < RsiPeriod THEN RInt(50)
        ELSE IF avg_loss.num = 0 THEN RInt(0)
        ELSE RSub(RInt(100),
                  TrueDiv(RInt(100), RAdd(RInt(1), TrueDiv(avg_gain, avg_loss))))
calculate_simple_rsi(prices) ==
    LET n == Len(prices)
        change == [i \in 1..(n - 1) |-> RSub(prices[i + 1], prices[i])]
        gains == [i \in 1..(n - 1) |-> IF change[i].num > 0 THEN change[i] ELSE RInt(0)]
        losses == [i \in 1..(n - 1) |-> IF change[i].num > 0 THEN RInt(0) ELSE RNeg(change[i])]
        avg_gain == TrueDiv(RSum(LastN(gains, RsiPeriod)), RInt(RsiPeriod))
        avg_loss == TrueDiv(RSum(LastN(losses, RsiPeriod)), RInt(RsiPeriod))
    IN  IF n < RsiPeriod + 1 THEN RInt(50)
        ELSE IF n - 1 < RsiPeriod THEN RInt(50)
        ELSE IF avg_loss.num = 0 THEN RInt(100)
        ELSE RSub(RInt(100),
                  TrueDiv(RInt(100), RAdd(RInt(1), TrueDiv(avg_gain, avg_loss))))

\* int(hashlib.md5(symbol.encode()).hexdigest(), 16) % 100 of the symbols of
\* the analysis specification.
Md5Mod100 == [s \in {"", "AAPL", "MSFT", "GOOGL"} |->
                 CASE s = "" -> 66 [] s = "AAPL" -> 10 [] s = "MSFT" -> 50
                   [] s = "GOOGL" -> 91]
\* The state of the process a call runs in: md5 does not depend on it
\* (hash() of a str does, through PYTHONHASHSEED).
Envs == {0, 1}
symbol_hash_Salted(symbol, env) == (Md5Mod100[symbol] + 37 * env) % 100
symbol_hash(symbol, env) == Md5Mod100[symbol]

\* sum(r*r for r in returns) / len(returns) * 252: the square of the
\* annualised volatility of line 24, each r*r to the sixth decimal.
AnnualVariance(prices) ==
    LET n == Len(prices)
        sq == [i \in 1..(n - 1) |->
                  LET r == TrueDiv(RSub(prices[i + 1], prices[i]), prices[i])
                      rr == RMul(r, r)
                  IN  RInt((rr.num * Micro) \div rr.den)]
    IN  RMul(RMul(RSum(sq), Rat(1, (n - 1) * Micro)), RInt(TradingDays))

\* Line 27: the trend, by the strict order of price, sma_20 and sma_50.
Trend(price, sma_20, sma_50) ==
    IF RLt(sma_20, price) /\ RLt(sma_50, sma_20) THEN "bullish"
    ELSE IF RLt(price, sma_20) /\ RLt(sma_20, sma_50) THEN "bearish"
    ELSE "neutral"

\* Lines 38-45: what the oscillator adds to <<buy_score, sell_score>>.
RsiScores_Independent(rsi) ==
    <<(IF RLt(rsi, RInt(30)) THEN 3 ELSE 0) + (IF RLt(rsi, RInt(40)) THEN 1 ELSE 0),
      (IF RLt(RInt(70), rsi) THEN 3 ELSE 0) + (IF RLt(RInt(60), rsi) THEN 1 ELSE 0)>>
RsiScores(rsi) ==
    IF RLt(rsi, RInt(30)) THEN <<3, 0>>
    ELSE IF RLt(rsi, RInt(40)) THEN <<1, 0>>
    ELSE IF RLt(RInt(70), rsi) THEN <<0, 3>>
    ELSE IF RLt(RInt(60), rsi) THEN <<0, 1>>
    ELSE <<0, 0>>

\* Lines 48-51: what the trend adds.
TrendScores(trend) ==
    IF trend = "bullish" THEN <<2, 0>>
    ELSE IF trend = "bearish" THEN <<0, 2>>
    ELSE <<0, 0>>

\* Lines 54-57: what the order of the moving averages adds.
OrderingScores_NotStrict(price, sma_20, sma_50) ==
    IF RLe(sma_20, price) /\ RLe(sma_50, sma_20) THEN <<2, 0>>
    ELSE IF RLe(price, sma_20) /\ RLe(sma_20, sma_50) THEN <<0, 2>>
    ELSE <<0, 0>>
OrderingScores(price, sma_20, sma_50) ==
    IF RLt(sma_20, price) /\ RLt(sma_50, sma_20) THEN <<2, 0>>
    ELSE IF RLt(price, sma_20) /\ RLt(sma_20, sma_50) THEN <<0, 2>>
    ELSE <<0, 0>>

\* Lines 60-62: a volatility above 0.4 takes 1 from both scores.
VolatilityScores_Adds(variance) ==
    IF RLt(Rat(16, 100), variance) THEN <<1, 1>> ELSE <<0, 0>>
VolatilityScores(variance) ==
    IF RLt(Rat(16, 100), variance) THEN <<0 - 1, 0 - 1>> ELSE <<0, 0>>

\* Lines 16-17: the two moving averages.
MovingAverages(prices) ==
    LET sma_20 == TrueDiv(RSum(LastN(prices, ShortWindow)), RInt(ShortWindow))
    IN  [sma_20 |-> sma_20,
         sma_50 |-> IF Len(prices) >= LongWindow
                    THEN TrueDiv(RSum(LastN(prices, LongWindow)), RInt(LongWindow))
                    ELSE sma_20]

\* Lines 34-62: the scores start at 0 and take what the four criteria add.
AddScores(from_rsi, from_trend, from_ma, from_vol) ==
    <<from_rsi[1] + from_trend[1] + from_ma[1] + from_vol[1],
      from_rsi[2] + from_trend[2] + from_ma[2] + from_vol[2]>>

\* Lines 65-66: the symbol bias, doubled, goes to buy_score and from
\* sell_score.
BiasScores(added, symbol_bias) ==
    [buy_score |-> RAdd(RInt(added[1]), RMul(symbol_bias, RInt(2))),
     sell_score |-> RSub(RInt(added[2]), RMul(symbol_bias, RInt(2)))]

\* Lines 26-66 of calculate_basic_indicators: the two scores.
Scores(prices, symbol, env) ==
    LET n == Len(prices)
        ma == MovingAverages(prices)
        rsi == calculate_simple_rsi(prices)
        symbol_bias == Rat(symbol_hash(symbol, env) - 50, 100)
        from_rsi == RsiScores(rsi)
        from_trend == TrendScores(Trend(prices[n], ma.sma_20, ma.sma_50))
        from_ma == OrderingScores(prices[n], ma.sma_20, ma.sma_50)
        from_vol == VolatilityScores(AnnualVariance(prices))
    IN  BiasScores(AddScores(from_rsi, from_trend, from_ma, from_vol), symbol_bias)

\* Lines 69-78: the final recommendation.
Recommendation_SellFirst(buy_score, sell_score) ==
    IF RLe(RInt(4), sell_score) THEN "SELL"
    ELSE IF RLe(RInt(4), buy_score) THEN "BUY"
    ELSE IF RLt(RAdd(sell_score, RInt(1)), buy_score) THEN "BUY"
    ELSE IF RLt(RAdd(buy_score, RInt(1)), sell_score) THEN "SELL"
    ELSE "HOLD"
Recommendation(buy_score, sell_score) ==
    IF RLe(RInt(4), buy_score) THEN "BUY"
    ELSE IF RLe(RInt(4), sell_score) THEN "SELL"
    ELSE IF RLt(RAdd(sell_score, RInt(1)), buy_score) THEN "BUY"
    ELSE IF RLt(RAdd(buy_score, RInt(1)), sell_score) THEN "SELL"
    ELSE "HOLD"

\* calculate_basic_indicators(prices, symbol), called in the process state
\* env.  A price of zero before the last makes line 23 or line 88 raise
\* ZeroDivisionError, which line 91 turns into an error result.
calculate_basic_indicators(prices, symbol, env) ==
    LET n == Len(prices)
        sma_20 == MovingAverages(prices).sma_20
        sma_50 == MovingAverages(prices).sma_50
        scores == Scores(prices, symbol, env)
    IN  IF n < MinBars THEN [error |-> "Insufficient data"]
        ELSE IF \E i \in 1..(n - 1) : prices[i].num = 0
        THEN [error |-> "Calculation error"]
        ELSE [rsi |-> round2(calculate_simple_rsi(prices)),
              sma_20 |-> round2(sma_20),
              sma_50 |-> round2(sma_50),
              volatility |-> Sqrt(AnnualVariance(prices)),
              trend |-> Trend(prices[n], sma_20, sma_50),
              recommendation |-> Recommendation(scores.buy_score, scores.sell_score),
              current_price |-> prices[n],
              price_change |->
                  round2(RMul(TrueDiv(RSub(prices[n], prices[n - 1]), prices[n - 1]),
                              RInt(100)))]

\* 100. - 100. / (1. + rs), with rs = up / down if down != 0 else 0 (lines
\* 166-168 and 181-182 of technical_analysis.py).
RsiValue_Mirrored(up, down) ==
    LET rs == IF down.num # 0 THEN TrueDiv(up, down) ELSE RInt(0)
    IN  RSub(TrueDiv(RInt(100), RAdd(RInt(1), rs)), RInt(100))
RsiValue(up, down) ==
    LET rs == IF down.num # 0 THEN TrueDiv(up, down) ELSE RInt(0)
    IN  RSub(RInt(100), TrueDiv(RInt(100), RAdd(RInt(1), rs)))

\* _calculate_rsi(prices), period = 14: the array it returns.  first is
\* (up, down) of the seed of lines 163-165, taken from the first period + 1
\* deltas; avg[k] is (up, down) after the pass of the loop with i = k.
calculate_rsi(prices) ==
    LET n == Len(prices)
        deltas == [j \in 1..(n - 1) |-> RSub(prices[j + 1], prices[j])]
        seed == FirstN(deltas, RsiPeriod + 1)
        ups == [j \in 1..Len(seed) |-> IF seed[j].num >= 0 THEN seed[j] ELSE RInt(0)]
        downs == [j \in 1..Len(seed) |-> IF seed[j].num < 0 THEN seed[j] ELSE RInt(0)]
        first == [up |-> TrueDiv(RSum(ups), RInt(RsiPeriod)),
                  down |-> TrueDiv(RNeg(RSum(downs)), RInt(RsiPeriod))]
        avg[k \in RsiPeriod..(n - 1)] ==
            LET before == IF k = RsiPeriod THEN first ELSE avg[k - 1]
                delta == deltas[k]
                upval == IF delta.num > 0 THEN delta ELSE RInt(0)
                downval == IF delta.num > 0 THEN RInt(0) ELSE RNeg(delta)
            IN  [up |-> TrueDiv(RAdd(RMul(before.up, RInt(RsiPeriod - 1)), upval),
                                RInt(RsiPeriod)),
                 down |-> TrueDiv(RAdd(RMul(before.down, RInt(RsiPeriod - 1)), downval),
                                  RInt(RsiPeriod))]
    IN  [j \in 1..n |->
            IF j <= RsiPeriod THEN RsiValue(first.up, first.down)
            ELSE RsiValue(avg[j - 1].up, avg[j - 1].down)]

\* _calculate_sma(prices, period): np.convolve(prices, np.ones(period)/period,
\* mode='valid').  convolve raises ValueError for an empty array, swaps its
\* arguments when the second is the longer, and in mode 'valid' returns the
\* max(n, period) - min(n, period) + 1 sums in which the shorter array
\* overlaps the longer one completely.
calculate_sma(prices, period) ==
    LET n == Len(prices)
        short == Min(n, period)
        len == Max(n, period) - short + 1
    IN  IF n = 0 THEN Raised("ValueError")
        ELSE [i \in 1..len |->
                 IF n >= period
                 THEN RMul(RSum(SubSeq(prices, i, i + period - 1)), Rat(1, period))
                 ELSE RMul(RSum(prices), Rat(1, period))]

\* _determine_trend(prices, sma_20, sma_50).
determine_trend(prices, sma_20, sma_50) ==
    IF Len(sma_20) = 0 \/ Len(sma_50) = 0 THEN "neutral"
    ELSE LET current_price == prices[Len(prices)]
             s20 == sma_20[Len(sma_20)]
             s50 == sma_50[Len(sma_50)]
         IN  IF RLt(s20, current_price) /\ RLt(s50, s20) THEN "bullish"
             ELSE IF RLt(current_price, s20) /\ RLt(s20, s50) THEN "bearish"
             ELSE "neutral"

\* A float that is infinite or not a number: numpy divides by zero without
\* raising.  A finite float the model does not compute: the mean and the
\* standard deviation of values that are not all equal, and what is computed
\* from them.
NotFinite == [not_finite |-> TRUE]
SomeFloat(what) == [float |-> what]

\* np.diff(prices) / prices[:-1].
Returns(prices) ==
    [i \in 1..(Len(prices) - 1) |->
        IF prices[i].num = 0 THEN NotFinite
        ELSE TrueDiv(RSub(prices[i + 1], prices[i]), prices[i])]

\* np.mean(a) and np.std(a): not finite for an empty array or one with such
\* an element, the common value and 0 when all elements are equal.
AllEqual(a) == \A i \in 1..Len(a) : a[i] = a[1]
np_mean(a) ==
    IF Len(a) = 0 \/ \E i \in 1..Len(a) : ~IsNumber(a[i]) THEN NotFinite
    ELSE IF AllEqual(a) THEN a[1]
    ELSE SomeFloat("mean")
np_std(a) ==
    IF Len(a) = 0 \/ \E i \in 1..Len(a) : ~IsNumber(a[i]) THEN NotFinite
    ELSE IF AllEqual(a) THEN RInt(0)
    ELSE SomeFloat("std")

\* x / y of two numpy floats: no exception, whatever y.
np_divide(x, y, what) ==
    IF x = NotFinite \/ y = NotFinite \/ y = RInt(0) THEN NotFinite
    ELSE SomeFloat(what)

\* Lines 38-39: the Sharpe ratio.
sharpe_ratio_NoGuard(close_prices) ==
    np_divide(np_mean(Returns(close_prices)), np_std(Returns(close_prices)), "sharpe")
sharpe_ratio(close_prices) ==
    LET returns == Returns(close_prices)
    IN  IF np_std(returns) # RInt(0)
        THEN np_divide(np_mean(returns), np_std(returns), "sharpe")
        ELSE RInt(0)

\* _calculate_skewness(returns) and _calculate_kurtosis(returns).
calculate_skewness(returns) ==
    LET mean_return == np_mean(returns)
        std_return == np_std(returns)
    IN  IF std_return = RInt(0) THEN RInt(0)
        ELSE np_divide(mean_return, std_return, "skewness")
calculate_kurtosis(returns) ==
    LET mean_return == np_mean(returns)
        std_return == np_std(returns)
    IN  IF std_return = RInt(0) THEN RInt(0)
        ELSE np_divide(mean_return, std_return, "kurtosis")

\* calculate_indicators(hist_data), as far as the two moving averages and
\* the Sharpe ratio go: the keys sma_20, sma_50, sharpe_ratio and trend of
\* its result.  The other keys (rsi, macd, the bands, volatility,
\* recommendation) come from computations that do not raise on 20 or more
\* closes.
calculate_indicators(close_prices) ==
    LET sma_20 == calculate_sma(close_prices, ShortWindow)
        sma_50 == calculate_sma(close_prices, LongWindow)
    IN  IF Len(close_prices) < MinBars THEN EmptyRecord
        ELSE [sma_20 |-> IF Len(sma_20) > 0 THEN sma_20[Len(sma_20)] ELSE None,
              sma_50 |-> IF Len(sma_50) > 0 THEN sma_50[Len(sma_50)] ELSE None,
              sharpe_ratio |-> sharpe_ratio(close_prices),
              trend |-> determine_trend(close_prices, sma_20, sma_50)]

\* _calculate_max_drawdown(prices); np.min raises ValueError for an empty
\* array.
calculate_max_drawdown_GlobalPeak(prices) ==
    LET n == Len(prices)
        peak == [i \in 1..n |-> RMaxRange(prices, 1, n)]
        drawdown == [i \in 1..n |-> TrueDiv(RSub(prices[i], peak[i]), peak[i])]
    IN  IF n = 0 THEN Raised("ValueError") ELSE RMinRange(drawdown, 1, n)
calculate_max_drawdown(prices) ==
    LET n == Len(prices)
        peak == [i \in 1..n |-> RMaxRange(prices, 1, i)]
        drawdown == [i \in 1..n |-> TrueDiv(RSub(prices[i], peak[i]), peak[i])]
    IN  IF n = 0 THEN Raised("ValueError") ELSE RMinRange(drawdown, 1, n)

\* generate_simple_predictions(prices).
generate_simple_predictions_LastSix(prices) ==
    LET n == Len(prices)
        current_price == prices[n]
        recent_trend == RSub(TrueDiv(RSum(LastN(prices, TrendWindow)), RInt(TrendWindow)),
                             TrueDiv(RSum(SubSeq(prices, n - TrendWindow, n - 1)),
                                     RInt(TrendWindow)))
    IN  IF n < MinPredictionBars THEN [error |-> "Insufficient data for predictions"]
        ELSE [k \in {"1d", "7d", "30d", "confidence"} |->
                 CASE k = "1d" -> round2(RAdd(current_price, RMul(recent_trend, Rat(2, 10))))
                   [] k = "7d" -> round2(RAdd(current_price, RMul(recent_trend, RInt(1))))
                   [] k = "30d" -> round2(RAdd(current_price, RMul(recent_trend, RInt(3))))
                   [] k = "confidence" -> Rat(75, 100)]
generate_simple_predictions(prices) ==
    LET n == Len(prices)
        current_price == prices[n]
        recent_trend == RSub(TrueDiv(RSum(LastN(prices, TrendWindow)), RInt(TrendWindow)),
                             TrueDiv(RSum(SubSeq(prices, n - 2 * TrendWindow + 1, n - TrendWindow)),
                                     RInt(TrendWindow)))
    IN  IF n < MinPredictionBars THEN [error |-> "Insufficient data for predictions"]
        ELSE [k \in {"1d", "7d", "30d", "confidence"} |->
                 CASE k = "1d" -> round2(RAdd(current_price, RMul(recent_trend, Rat(2, 10))))
                   [] k = "7d" -> round2(RAdd(current_price, RMul(recent_trend, RInt(1))))
                   [] k = "30d" -> round2(RAdd(current_price, RMul(recent_trend, RInt(3))))
                   [] k = "confidence" -> Rat(75, 100)]

(***************************************************************************)
(* The state.                                                              *)
(***************************************************************************)
VARIABLES
    is_updating,     \* self.is_updating
    sp500_data,      \* self.sp500_data: a reference to a dict object of heap
    last_update,     \* self.last_update: NoTime for None, else a clock value
    heap,            \* the contents of every dict object, by reference
    nobj,            \* the dict objects allocated so far are 0..nobj
    clock,           \* datetime.now()
    calls,           \* calls of update_sp500_data made so far, the initial one apart
    pc,              \* where each coroutine stands
    exc,             \* the exception in flight in each coroutine
    running,         \* the coroutine the event loop is executing, or NoTask
    market_data,     \* the local market_data of each call
    market_summary,  \* the local market_summary of each call
    held,            \* what each reader got from get_current_data
    pre,             \* history: the published state when a call passed the guard
    outcome,         \* history: how the latest call of each coroutine went
    events,          \* history: the refreshes and sleeps of the background task
    nsuccess,        \* history: refreshes that completed successfully
    lastGood,        \* history: the object the latest successful refresh published
    rank_n,          \* ranking specification: the universe size
    rank_draw,       \* ranking specification: the draws
    rank_out,        \* ranking specification: the result of _generate_market_data
    ta_prices,       \* analysis specification: the price series
    ta_symbol,       \* analysis specification: the symbol
    ta_basic,        \* analysis specification: the results of two calls of
                     \* calculate_basic_indicators
    ta_out,          \* analysis specification: the latest result of another operation
    run_symbol,      \* pricing specification: the symbol priced
    run_seed,        \* pricing specification: the hash seed of each process run
    run_quotes,      \* pricing specification: the quotes of the symbol, one for
                     \* each refresh of each process run
    sd_symbol,       \* get_stock_data: the symbol
    sd_period,       \* get_stock_data: the period
    sd_seed,         \* get_stock_data: the hash seed of the process
    sd_pc,           \* get_stock_data: where the call stands
    sd_price,        \* get_stock_data: current_price
    sd_prices,       \* get_stock_data: the list prices
    sd_result        \* get_stock_data: what the call returned

vars == <<is_updating, sp500_data, last_update, heap, nobj, clock, calls, pc, exc,
          running, market_data, market_summary, held, pre, outcome, events,
          nsuccess, lastGood, rank_n, rank_draw, rank_out, ta_prices, ta_symbol,
          ta_basic, ta_out, run_symbol, run_seed, run_quotes, sd_symbol, sd_period,
          sd_seed, sd_pc, sd_price, sd_prices, sd_result>>

serviceVars == <<is_updating, sp500_data, last_update, heap, nobj, clock, calls, pc,
                 exc, running, market_data, market_summary, held, pre, outcome,
                 events, nsuccess, lastGood>>
rankVars == <<rank_n, rank_draw, rank_out>>
analysisVars == <<ta_prices, ta_symbol, ta_basic, ta_out>>
quoteVars == <<run_symbol, run_seed, run_quotes>>
barVars == <<sd_symbol, sd_period, sd_seed, sd_pc, sd_price, sd_prices, sd_result>>
\* What the service does not touch.
pureVars == <<rankVars, analysisVars, quoteVars, barVars>>

\* The background task of main.py and the coroutines of explicit triggers.
Sched == 0
Triggers == {1, 2}
Tasks == {Sched} \cup Triggers
Readers == {1}
NoTask == -1
NoTime == 0
\* One dict object for __init__ and one for each call.
ObjIds == 0..(MaxCalls + 1)
\* {} and None.
EmptyDict == [k \in {} |-> 0]

\* The draws the refreshes of the service choose from.
Draws ==
    {[a |-> 1, b |-> 0, m |-> 3, p |-> 0, w |-> 0, c |-> 1, m2 |-> 7],
     [a |-> 3, b |-> 1, m |-> 53, p |-> 5, w |-> 0, c |-> 7, m2 |-> 53]}

\* _generate_market_data() for each of these draws.
MarketData == [d \in Draws |-> generate_market_data(NumSymbols, d)]

\* The draws of the ranking specification.
RankDraws ==
    [a : {1, 3}, b : {0, 1}, m : {1, 2, 3, 7, 53}, p : {0, 1, TopN, TopN + 1, 2 * TopN},
     w : {-1, 0, 40}, c : {1, 7}, m2 : {1, 3, 53}]
RankUniverses == (2 * TopN)..(2 * TopN + ExtraUniverse) \cup {NumSymbols}

NoObj == -1
InBody == {"gen", "genwait", "sum", "pub", "stamp", "except", "finally"}
\* Where a call of update_sp500_data returns to: the background task goes on
\* to await asyncio.sleep (line 37), a trigger coroutine ends.
ReturnLabel(t) == IF t = Sched THEN "sleep" ELSE "done"

(***************************************************************************)
(* The readers.                                                            *)
(***************************************************************************)
\* get_current_data: the error result when self.sp500_data is falsy (an
\* empty dict), else the very dict object self.sp500_data refers to.
get_current_data_ErrorWhileUpdating ==
    IF DOMAIN heap[sp500_data] = {} \/ is_updating
    THEN [error |-> TRUE, ref |-> NoObj]
    ELSE [error |-> FALSE, ref |-> sp500_data]
get_current_data ==
    IF DOMAIN heap[sp500_data] = {}
    THEN [error |-> TRUE, ref |-> NoObj]
    ELSE [error |-> FALSE, ref |-> sp500_data]

\* get_last_update_time: None, or the time of the last update.
get_last_update_time == last_update

\* A request handler of routers/sp500.py: it runs when the event loop is
\* free, calls get_current_data and keeps the result.
Read(r) ==
    /\ running = NoTask
    /\ held' = [held EXCEPT ![r] = get_current_data]
    /\ UNCHANGED <<is_updating, sp500_data, last_update, heap, nobj, clock, calls, pc,
                   exc, running, market_data, market_summary, pre, outcome, events, nsuccess, lastGood>>
    /\ UNCHANGED pureVars

(***************************************************************************)
(* start_background_updates and the explicit triggers.                     *)
(***************************************************************************)
\* The event loop starts the task created at startup: the initial update
\* (line 33) is called at once.
StartBackground_SleepFirst ==
    /\ running = NoTask
    /\ pc[Sched] = "created"
    /\ pc' = [pc EXCEPT ![Sched] = "sleep"]
    /\ UNCHANGED <<is_updating, sp500_data, last_update, heap, nobj, clock, calls, exc,
                   running, market_data, market_summary, held, pre, outcome, events, nsuccess, lastGood>>
    /\ UNCHANGED pureVars
StartBackground ==
    /\ running = NoTask
    /\ pc[Sched] = "created"
    /\ pc' = [pc EXCEPT ![Sched] = "guard"]
    /\ running' = Sched
    /\ outcome' = [outcome EXCEPT ![Sched] = "none"]
    /\ UNCHANGED <<is_updating, sp500_data, last_update, heap, nobj, clock, calls, exc,
                   market_data, market_summary, held, pre, events, nsuccess,
                   lastGood>>
    /\ UNCHANGED pureVars

\* asyncio.sleep(self.update_interval) is over (line 37): the loop resumes
\* the task, which calls update_sp500_data (line 38).
TimerFire ==
    /\ running = NoTask
    /\ pc[Sched] = "sleep"
    /\ calls < MaxCalls
    /\ pc' = [pc EXCEPT ![Sched] = "guard"]
    /\ running' = Sched
    /\ calls' = calls + 1
    /\ clock' = clock + 1
    /\ events' = Append(events, "sleep")
    /\ outcome' = [outcome EXCEPT ![Sched] = "none"]
    /\ UNCHANGED <<is_updating, sp500_data, last_update, heap, nobj, exc, market_data,
                   market_summary, held, pre, nsuccess, lastGood>>
    /\ UNCHANGED pureVars

\* Another coroutine of the same loop awaits sp500_service.update_sp500_data().
Trigger(t) ==
    /\ running = NoTask
    /\ t \in Triggers
    /\ pc[t] = "idle"
    /\ calls < MaxCalls
    /\ pc' = [pc EXCEPT ![t] = "guard"]
    /\ running' = t
    /\ calls' = calls + 1
    /\ clock' = clock + 1
    /\ outcome' = [outcome EXCEPT ![t] = "none"]
    /\ UNCHANGED <<is_updating, sp500_data, last_update, heap, nobj, exc, market_data,
                   market_summary, held, pre, events, nsuccess, lastGood>>
    /\ UNCHANGED pureVars

(***************************************************************************)
(* update_sp500_data, one step per statement.  A step belongs to the       *)
(* coroutine the event loop is executing.                                  *)
(***************************************************************************)
\* Lines 42-45: return at once while a refresh is in flight, else set the flag.
Guard_NoCheck(t) ==
    /\ running = t
    /\ pc[t] = "guard"
    /\ is_updating' = TRUE
    /\ pc' = [pc EXCEPT ![t] = "gen"]
    /\ pre' = [pre EXCEPT ![t] = [data |-> sp500_data, content |-> heap[sp500_data],
                                  time |-> last_update]]
    /\ events' = IF t = Sched THEN Append(events, "refresh") ELSE events
    /\ UNCHANGED <<sp500_data, last_update, heap, nobj, clock, calls, exc, running,
                   market_data, market_summary, held, outcome, nsuccess, lastGood>>
    /\ UNCHANGED pureVars
Guard(t) ==
    /\ running = t
    /\ pc[t] = "guard"
    /\ IF is_updating
       THEN /\ pc' = [pc EXCEPT ![t] = ReturnLabel(t)]
            /\ running' = NoTask
            /\ outcome' = [outcome EXCEPT ![t] = "dropped"]
            /\ events' = IF t = Sched THEN Append(events, "dropped") ELSE events
            /\ UNCHANGED <<is_updating, pre>>
       ELSE /\ is_updating' = TRUE
            /\ pc' = [pc EXCEPT ![t] = "gen"]
            /\ pre' = [pre EXCEPT ![t] = [data |-> sp500_data,
                                          content |-> heap[sp500_data],
                                          time |-> last_update]]
            /\ events' = IF t = Sched THEN Append(events, "refresh") ELSE events
            /\ UNCHANGED <<running, outcome>>
    /\ UNCHANGED <<sp500_data, last_update, heap, nobj, clock, calls, exc, market_data,
                   market_summary, held, nsuccess, lastGood>>
    /\ UNCHANGED pureVars

\* Line 50: market_data = self._generate_market_data(), which returns the
\* data of some draws or raises.
GenerateResult(t) ==
    /\ \E d \in Draws, ok \in BOOLEAN :
         IF ok
         THEN /\ market_data' = [market_data EXCEPT ![t] = MarketData[d]]
              /\ pc' = [pc EXCEPT ![t] = "sum"]
              /\ UNCHANGED <<exc, outcome>>
         ELSE /\ exc' = [exc EXCEPT ![t] = "Exception"]
              /\ outcome' = [outcome EXCEPT ![t] = "failed"]
              /\ pc' = [pc EXCEPT ![t] = "except"]
              /\ UNCHANGED market_data
    /\ UNCHANGED <<is_updating, sp500_data, last_update, heap, nobj, clock, calls,
                   market_summary, held, pre, events, nsuccess, lastGood>>
    /\ UNCHANGED pureVars

\* A generation that awaits: the coroutine gives the event loop back.
Generate_Awaits(t) ==
    /\ running = t
    /\ pc[t] = "gen"
    /\ pc' = [pc EXCEPT ![t] = "genwait"]
    /\ running' = NoTask
    /\ UNCHANGED <<is_updating, sp500_data, last_update, heap, nobj, clock, calls, exc,
                   market_data, market_summary, held, pre, outcome, events,
                   nsuccess, lastGood>>
    /\ UNCHANGED pureVars
Generate(t) ==
    /\ running = t
    /\ pc[t] = "gen"
    /\ UNCHANGED running
    /\ GenerateResult(t)

\* Line 53: market_summary = self._calculate_market_summary(market_data).
Summarize(t) ==
    /\ running = t
    /\ pc[t] = "sum"
    /\ \E ok \in BOOLEAN :
         IF ok
         THEN /\ market_summary' = [market_summary EXCEPT
                                      ![t] = calculate_market_summary(market_data[t])]
              /\ pc' = [pc EXCEPT ![t] = "pub"]
              /\ UNCHANGED <<exc, outcome>>
         ELSE /\ exc' = [exc EXCEPT ![t] = "Exception"]
              /\ outcome' = [outcome EXCEPT ![t] = "failed"]
              /\ pc' = [pc EXCEPT ![t] = "except"]
              /\ UNCHANGED market_summary
    /\ UNCHANGED <<is_updating, sp500_data, last_update, heap, nobj, clock, calls,
                   running, market_data, held, pre, events, nsuccess, lastGood>>
    /\ UNCHANGED pureVars

\* self.sp500_data = {...}: a new dict object is built and the attribute is
\* bound to it; the object it referred to before is left as it was.
PublishHeap_InPlace(h, ref, newid, snap) ==
    [heap |-> [h EXCEPT ![ref] = snap], ref |-> ref]
PublishHeap(h, ref, newid, snap) ==
    [heap |-> [h EXCEPT ![newid] = snap], ref |-> newid]

\* Lines 55-63.
Publish(t) ==
    /\ running = t
    /\ pc[t] = "pub"
    /\ LET snap == BuildSnapshot(clock, market_summary[t], market_data[t])
           new == PublishHeap(heap, sp500_data, nobj + 1, snap)
       IN  /\ heap' = new.heap
           /\ sp500_data' = new.ref
    /\ nobj' = nobj + 1
    /\ pc' = [pc EXCEPT ![t] = "stamp"]
    /\ UNCHANGED <<is_updating, last_update, clock, calls, exc, running, market_data,
                   market_summary, held, pre, outcome, events, nsuccess, lastGood>>
    /\ UNCHANGED pureVars

\* Lines 65-66: self.last_update = datetime.now().
Stamp(t) ==
    /\ running = t
    /\ pc[t] = "stamp"
    /\ last_update' = clock
    /\ outcome' = [outcome EXCEPT ![t] = "ok"]
    /\ pc' = [pc EXCEPT ![t] = "finally"]
    /\ UNCHANGED <<is_updating, sp500_data, heap, nobj, clock, calls, exc, running,
                   market_data, market_summary, held, pre, events, nsuccess,
                   lastGood>>
    /\ UNCHANGED pureVars

\* Lines 68-69: except Exception logs the error and swallows it.
Except_ClearData(t) ==
    /\ running = t
    /\ pc[t] = "except"
    /\ exc' = [exc EXCEPT ![t] = "none"]
    /\ pc' = [pc EXCEPT ![t] = "finally"]
    /\ sp500_data' = 0
    /\ UNCHANGED <<is_updating, last_update, heap, nobj, clock, calls, running,
                   market_data, market_summary, held, pre, outcome, events, nsuccess,
                   lastGood>>
    /\ UNCHANGED pureVars
Except_ResetTime(t) ==
    /\ running = t
    /\ pc[t] = "except"
    /\ exc' = [exc EXCEPT ![t] = "none"]
    /\ pc' = [pc EXCEPT ![t] = "finally"]
    /\ last_update' = NoTime
    /\ UNCHANGED <<is_updating, sp500_data, heap, nobj, clock, calls, running,
                   market_data, market_summary, held, pre, outcome, events, nsuccess,
                   lastGood>>
    /\ UNCHANGED pureVars
Except_Reraise(t) ==
    /\ running = t
    /\ pc[t] = "except"
    /\ pc' = [pc EXCEPT ![t] = "finally"]
    /\ UNCHANGED <<is_updating, sp500_data, last_update, heap, nobj, clock, calls, exc,
                   running, market_data, market_summary, held, pre, outcome, events, nsuccess, lastGood>>
    /\ UNCHANGED pureVars
Except(t) ==
    /\ running = t
    /\ pc[t] = "except"
    /\ exc' = [exc EXCEPT ![t] = "none"]
    /\ pc' = [pc EXCEPT ![t] = "finally"]
    /\ UNCHANGED <<is_updating, sp500_data, last_update, heap, nobj, clock, calls,
                   running, market_data, market_summary, held, pre, outcome, events, nsuccess, lastGood>>
    /\ UNCHANGED pureVars

\* Lines 70-71: finally clears the flag; then the call returns, or the
\* exception still in flight leaves the coroutine and ends its task.
FinallyExit(t) ==
    /\ pc' = [pc EXCEPT ![t] = CASE exc[t] = "none" -> ReturnLabel(t)
                                 [] exc[t] = "CancelledError" -> "cancelled"
                                 [] OTHER -> "crashed"]
    /\ exc' = [exc EXCEPT ![t] = "none"]
    /\ running' = NoTask
    /\ market_data' = [market_data EXCEPT ![t] = EmptyDict]
    /\ market_summary' = [market_summary EXCEPT ![t] = EmptyDict]
    /\ nsuccess' = IF outcome[t] = "ok" THEN nsuccess + 1 ELSE nsuccess
    /\ lastGood' = IF outcome[t] = "ok" THEN sp500_data ELSE lastGood
    /\ UNCHANGED <<sp500_data, last_update, heap, nobj, clock, calls, held, pre,
                   outcome, events>>
    /\ UNCHANGED pureVars
Finally_KeepFlag(t) ==
    /\ running = t
    /\ pc[t] = "finally"
    /\ is_updating' = (outcome[t] # "ok")
    /\ FinallyExit(t)
Finally(t) ==
    /\ running = t
    /\ pc[t] = "finally"
    /\ is_updating' = FALSE
    /\ FinallyExit(t)

(***************************************************************************)
(* Cancellation.  task.cancel() takes effect where the task is suspended:  *)
(* CancelledError is raised at its await.  It is a BaseException, so       *)
(* except Exception does not catch it, and finally still runs.             *)
(***************************************************************************)
Cancel_SkipFinally(t) ==
    /\ running = NoTask
    /\ \/ /\ t = Sched
          /\ pc[t] \in {"created", "sleep"}
       \/ pc[t] = "genwait"
    /\ pc' = [pc EXCEPT ![t] = "cancelled"]
    /\ outcome' = [outcome EXCEPT ![t] = IF pc[t] = "genwait" THEN "cancelled" ELSE @]
    /\ UNCHANGED <<is_updating, sp500_data, last_update, heap, nobj, clock, calls, exc,
                   running, market_data, market_summary, held, pre, events,
                   nsuccess, lastGood>>
    /\ UNCHANGED pureVars
Cancel(t) ==
    /\ running = NoTask
    /\ \/ /\ t = Sched
          /\ pc[t] \in {"created", "sleep"}
          \* Raised at line 37, or before the first statement: outside any try.
          /\ pc' = [pc EXCEPT ![t] = "cancelled"]
          /\ UNCHANGED <<exc, running, outcome>>
       \/ /\ pc[t] = "genwait"
          \* Raised inside the try of update_sp500_data.
          /\ pc' = [pc EXCEPT ![t] = "finally"]
          /\ exc' = [exc EXCEPT ![t] = "CancelledError"]
          /\ outcome' = [outcome EXCEPT ![t] = "cancelled"]
          /\ running' = t
    /\ UNCHANGED <<is_updating, sp500_data, last_update, heap, nobj, clock, calls,
                   market_data, market_summary, held, pre, events, nsuccess,
                   lastGood>>
    /\ UNCHANGED pureVars

(***************************************************************************)
(* A slow refresh: the generation of the market data takes several turns   *)
(* of the event loop, during which other coroutines run.  The code of      *)
(* _generate_market_data never suspends; these two steps exist only in     *)
(* SpecSlow, the setting of the single-flight guard.                       *)
(***************************************************************************)
YieldGen(t) ==
    /\ running = t
    /\ pc[t] = "gen"
    /\ pc' = [pc EXCEPT ![t] = "genwait"]
    /\ running' = NoTask
    /\ UNCHANGED <<is_updating, sp500_data, last_update, heap, nobj, clock, calls, exc,
                   market_data, market_summary, held, pre, outcome, events,
                   nsuccess, lastGood>>
    /\ UNCHANGED pureVars

ResumeGen(t) ==
    /\ running = NoTask
    /\ pc[t] = "genwait"
    /\ running' = t
    /\ GenerateResult(t)

(***************************************************************************)
(* The ranking specification: _generate_market_data applied once to every  *)
(* universe size and every draw of RankDraws.                              *)
(***************************************************************************)
Rank ==
    /\ rank_out = EmptyDict
    /\ rank_out' = generate_market_data(rank_n, rank_draw)
    /\ UNCHANGED <<rank_n, rank_draw>>
    /\ UNCHANGED serviceVars
    /\ UNCHANGED <<analysisVars, quoteVars, barVars>>

(***************************************************************************)
(* The analysis specification: one price series and one symbol, to which   *)
(* either calculate_basic_indicators is applied twice or one of the other  *)
(* operations of the two analysis services once.                           *)
(***************************************************************************)
AnalysisSymbols == {"AAPL", "MSFT", "GOOGL"}
Calls == {"first", "second"}
NotCalled == [op |-> "none"]
Periods == {ShortWindow, LongWindow}

\* The series: rising, falling, constant, oscillating, rising with dips,
\* one with a price of zero, two that fall and rise unevenly, and (of
\* MinBars and MinBars + 1 prices) one that doubles at every step.
SeriesLengths ==
    {0, 1, MinPredictionBars - 1, MinPredictionBars, RsiPeriod, RsiPeriod + 1,
     MaxRsiBars - 1, MaxRsiBars, MinBars - 1, MinBars, MinBars + 1, LongWindow - 1}
        \cup LongWindow..(LongWindow + ExtraBars)
SeriesDraws ==
    [n : SeriesLengths,
     shape : {"up", "down", "flat", "zig", "dip", "gap", "sag", "swell"},
     step : {1, 3}]
        \cup [n : {MinBars, MinBars + 1}, shape : {"double"}, step : {1, 3}]
\* A walk that over any seven steps rises by 11 in all and falls by 18 in
\* all: a jump of 11, three falls of 6, three steps level.
Sag(j) == (0 - 7) * (j \div 7) + <<0, 11, 5, 0 - 1, 0 - 7, 0 - 7, 0 - 7>>[(j % 7) + 1]
Cents(d, i) ==
    CASE d.shape = "up" -> BasePrice + d.step * i
      [] d.shape = "down" -> BasePrice + d.step * (d.n + 1 - i)
      [] d.shape = "flat" -> BasePrice + d.step
      [] d.shape = "zig" -> BasePrice + d.step * ((7 * i) % 5)
      [] d.shape = "dip" -> BasePrice + d.step * (i + 4 - (IF i % 6 = 0 THEN 4 ELSE 0))
      [] d.shape = "gap" -> IF i = 2 THEN 0 ELSE BasePrice + d.step
      [] d.shape = "sag" -> BasePrice + d.step * (70 + Sag(i - 1))
      [] d.shape = "swell" -> BasePrice + d.step * (12 - Sag(i - 1))
      [] d.shape = "double" -> d.step * 2 ^ (i - 1)
Series(d) == [i \in 1..d.n |-> Rat(Cents(d, i), 100)]
AllSeries == {Series(d) : d \in SeriesDraws}
Positive(prices) == \A i \in 1..Len(prices) : prices[i].num > 0

\* One call of calculate_basic_indicators, in a process state e.
BasicIndicators(c, e) ==
    /\ ta_out = NotCalled
    /\ ta_basic[c] = NotCalled
    /\ c = "second" => ta_basic["first"] # NotCalled
    /\ ta_basic' = [ta_basic EXCEPT ![c] =
                       [env |-> e,
                        result |-> calculate_basic_indicators(ta_prices, ta_symbol, e)]]
    /\ UNCHANGED <<ta_prices, ta_symbol, ta_out>>
    /\ UNCHANGED <<serviceVars, rankVars, quoteVars, barVars>>

SimpleRsi ==
    /\ ta_out = NotCalled
    /\ ta_basic["first"] = NotCalled
    /\ ta_basic["first"] = NotCalled
    /\ ta_out' = [op |-> "simple_rsi", value |-> calculate_simple_rsi(ta_prices)]
    /\ UNCHANGED <<ta_prices, ta_symbol, ta_basic>>
    /\ UNCHANGED <<serviceVars, rankVars, quoteVars, barVars>>

Rsi ==
    /\ ta_out = NotCalled
    /\ ta_basic["first"] = NotCalled
    /\ Len(ta_prices) <= MaxRsiBars
    /\ ta_out' = [op |-> "rsi", value |-> calculate_rsi(ta_prices)]
    /\ UNCHANGED <<ta_prices, ta_symbol, ta_basic>>
    /\ UNCHANGED <<serviceVars, rankVars, quoteVars, barVars>>

Sma(period) ==
    /\ ta_out = NotCalled
    /\ ta_basic["first"] = NotCalled
    /\ ta_out' = [op |-> "sma", period |-> period, value |-> calculate_sma(ta_prices, period)]
    /\ UNCHANGED <<ta_prices, ta_symbol, ta_basic>>
    /\ UNCHANGED <<serviceVars, rankVars, quoteVars, barVars>>

Indicators ==
    /\ ta_out = NotCalled
    /\ ta_basic["first"] = NotCalled
    /\ ta_out' = [op |-> "indicators", value |-> calculate_indicators(ta_prices)]
    /\ UNCHANGED <<ta_prices, ta_symbol, ta_basic>>
    /\ UNCHANGED <<serviceVars, rankVars, quoteVars, barVars>>

MaxDrawdown ==
    /\ ta_out = NotCalled
    /\ ta_basic["first"] = NotCalled
    /\ ta_out' = [op |-> "max_drawdown", value |-> calculate_max_drawdown(ta_prices)]
    /\ UNCHANGED <<ta_prices, ta_symbol, ta_basic>>
    /\ UNCHANGED <<serviceVars, rankVars, quoteVars, barVars>>

\* _calculate_skewness and _calculate_kurtosis, on the returns that
\* calculate_risk_metrics passes (line 128).
Skewness ==
    /\ ta_out = NotCalled
    /\ ta_basic["first"] = NotCalled
    /\ ta_out' = [op |-> "skewness", value |-> calculate_skewness(Returns(ta_prices))]
    /\ UNCHANGED <<ta_prices, ta_symbol, ta_basic>>
    /\ UNCHANGED <<serviceVars, rankVars, quoteVars, barVars>>

Kurtosis ==
    /\ ta_out = NotCalled
    /\ ta_basic["first"] = NotCalled
    /\ ta_out' = [op |-> "kurtosis", value |-> calculate_kurtosis(Returns(ta_prices))]
    /\ UNCHANGED <<ta_prices, ta_symbol, ta_basic>>
    /\ UNCHANGED <<serviceVars, rankVars, quoteVars, barVars>>

Predictions ==
    /\ ta_out = NotCalled
    /\ ta_basic["first"] = NotCalled
    /\ ta_out' = [op |-> "predictions", value |-> generate_simple_predictions(ta_prices)]
    /\ UNCHANGED <<ta_prices, ta_symbol, ta_basic>>
    /\ UNCHANGED <<serviceVars, rankVars, quoteVars, barVars>>

(***************************************************************************)
(* The pricing specification: one symbol, priced in the refreshes of two    *)
(* runs of the process.                                                     *)
(***************************************************************************)
Runs == {1, 2}

\* One pass of the loop of lines 79-97 for run_symbol, in a refresh of the
\* process run r.
PriceSymbol(r, draw) ==
    /\ Len(run_quotes[r]) < MaxRefreshes
    /\ run_quotes' = [run_quotes EXCEPT
                        ![r] = Append(@, PricedQuote(run_symbol, run_seed[r], draw))]
    /\ UNCHANGED <<run_symbol, run_seed>>
    /\ UNCHANGED <<serviceVars, rankVars, analysisVars, barVars>>

(***************************************************************************)
(* The bars specification: one call of get_stock_data, of which the first   *)
(* MaxBars passes of the loop are made.                                     *)
(***************************************************************************)
Periods_get_stock_data == {"1d", "5d", "1y", "10y"}

\* Lines 18-20.
StartBars ==
    /\ sd_pc = "start"
    /\ sd_price' = stock_base_price(sd_symbol, sd_seed) * Grid
    /\ sd_pc' = "loop"
    /\ UNCHANGED <<sd_symbol, sd_period, sd_seed, sd_prices, sd_result>>
    /\ UNCHANGED <<serviceVars, rankVars, analysisVars, quoteVars>>

\* One pass of the loop of line 27 or of line 74.
Bar(draw) ==
    /\ sd_pc = "loop"
    /\ Len(sd_prices) < Min(NumBars(sd_period), MaxBars)
    /\ draw \in BarDraws(sd_period)
    /\ sd_prices' = Append(sd_prices, MakeBar(sd_price, draw).bar)
    /\ sd_price' = MakeBar(sd_price, draw).current_price
    /\ UNCHANGED <<sd_symbol, sd_period, sd_seed, sd_pc, sd_result>>
    /\ UNCHANGED <<serviceVars, rankVars, analysisVars, quoteVars>>

\* Lines 105-109.
ReturnBars ==
    /\ sd_pc = "loop"
    /\ Len(sd_prices) = Min(NumBars(sd_period), MaxBars)
    /\ sd_result' = [symbol |-> sd_symbol, data |-> sd_prices,
                     current_price |-> round2(Rat(sd_price, Grid))]
    /\ sd_pc' = "done"
    /\ UNCHANGED <<sd_symbol, sd_period, sd_seed, sd_price, sd_prices>>
    /\ UNCHANGED <<serviceVars, rankVars, analysisVars, quoteVars>>

(***************************************************************************)
(* The specifications.                                                     *)
(***************************************************************************)
\* SP500Service.__init__, and the task main.py creates at startup.
InitService ==
    /\ is_updating = FALSE
    /\ sp500_data = 0
    /\ last_update = NoTime
    /\ heap = [o \in ObjIds |-> EmptyDict]
    /\ nobj = 0
    /\ clock = 1
    /\ calls = 0
    /\ pc = [t \in Tasks |-> IF t = Sched THEN "created" ELSE "idle"]
    /\ exc = [t \in Tasks |-> "none"]
    /\ running = NoTask
    /\ market_data = [t \in Tasks |-> EmptyDict]
    /\ market_summary = [t \in Tasks |-> EmptyDict]
    /\ held = [r \in Readers |-> [error |-> TRUE, ref |-> NoObj]]
    /\ pre = [t \in Tasks |-> [data |-> 0, content |-> EmptyDict, time |-> NoTime]]
    /\ outcome = [t \in Tasks |-> "none"]
    /\ events = <<>>
    /\ nsuccess = 0
    /\ lastGood = NoObj

\* No ranking and no analysis under way.
NoRanking ==
    /\ rank_n = 0
    /\ rank_draw = EmptyDict
    /\ rank_out = EmptyDict
NoAnalysis ==
    /\ ta_prices = <<>>
    /\ ta_symbol = ""
    /\ ta_basic = [c \in Calls |-> NotCalled]
    /\ ta_out = NotCalled
NoBars ==
    /\ sd_symbol = ""
    /\ sd_period = ""
    /\ sd_seed = 0
    /\ sd_pc = "none"
    /\ sd_price = 0
    /\ sd_prices = <<>>
    /\ sd_result = None
NoPricing ==
    /\ run_symbol = ""
    /\ run_seed = [r \in Runs |-> 0]
    /\ run_quotes = [r \in Runs |-> <<>>]

Init ==
    /\ InitService
    /\ NoRanking
    /\ NoAnalysis
    /\ NoPricing
    /\ NoBars

InitRank ==
    /\ InitService
    /\ rank_n \in RankUniverses
    /\ rank_draw \in RankDraws
    /\ rank_out = EmptyDict
    /\ NoAnalysis
    /\ NoPricing
    /\ NoBars

InitAnalysis ==
    /\ InitService
    /\ NoRanking
    /\ ta_prices \in AllSeries
    /\ ta_symbol \in AnalysisSymbols
    /\ ta_basic = [c \in Calls |-> NotCalled]
    /\ ta_out = NotCalled
    /\ NoPricing
    /\ NoBars

InitPricing ==
    /\ InitService
    /\ NoRanking
    /\ NoAnalysis
    /\ run_symbol \in PricedSymbols
    /\ run_seed \in [Runs -> HashSeeds]
    /\ run_quotes = [r \in Runs |-> <<>>]
    /\ NoBars

InitBars ==
    /\ InitService
    /\ NoRanking
    /\ NoAnalysis
    /\ NoPricing
    /\ sd_symbol \in PricedSymbols
    /\ sd_period \in Periods_get_stock_data
    /\ sd_seed \in HashSeeds
    /\ sd_pc = "start"
    /\ sd_price = 0
    /\ sd_prices = <<>>
    /\ sd_result = None

\* One statement of the coroutine the event loop is executing.
Step(t) ==
    \/ Guard(t)
    \/ Generate(t)
    \/ Summarize(t)
    \/ Publish(t)
    \/ Stamp(t)
    \/ Except(t)
    \/ Finally(t)

Next ==
    \/ StartBackground
    \/ TimerFire
    \/ \E t \in Triggers : Trigger(t)
    \/ \E t \in Tasks : Step(t)
    \/ \E t \in Tasks : Cancel(t)
    \/ \E r \in Readers : Read(r)

NextSlow ==
    \/ Next
    \/ \E t \in Tasks : YieldGen(t)
    \/ \E t \in Tasks : ResumeGen(t)

\* The program: one event loop, no suspension point inside a refresh.
Spec == Init /\ [][Next]_vars

\* The program with a slow refresh.
SpecSlow == Init /\ [][NextSlow]_vars

\* The event loop goes on with the coroutine it is executing, and a slow
\* generation ends.
Fairness ==
    /\ WF_vars(\E t \in Tasks : Step(t))
    /\ WF_vars(\E t \in Tasks : ResumeGen(t))
FairSpecSlow == SpecSlow /\ Fairness

SpecRank == InitRank /\ [][Rank]_vars

NextAnalysis ==
    \/ \E c \in Calls, e \in Envs : BasicIndicators(c, e)
    \/ SimpleRsi
    \/ Rsi
    \/ \E period \in Periods : Sma(period)
    \/ Indicators
    \/ MaxDrawdown
    \/ Skewness
    \/ Kurtosis
    \/ Predictions
SpecAnalysis == InitAnalysis /\ [][NextAnalysis]_vars

NextPricing == \E r \in Runs, draw \in QuoteDraws : PriceSymbol(r, draw)
SpecPricing == InitPricing /\ [][NextPricing]_vars

NextBars ==
    \/ StartBars
    \/ \E draw \in IntradayDraws \cup DailyDraws : Bar(draw)
    \/ ReturnBars
SpecBars == InitBars /\ [][NextBars]_vars

(***************************************************************************)
(* Properties.                                                             *)
(***************************************************************************)
\* The coroutines past the is_updating guard of update_sp500_data.
InFlight == {t \in Tasks : pc[t] \in InBody}

\* C1: single-flight refresh.  At any moment at most one execution of
\* update_sp500_data is past the guard, the flag is set exactly while one is,
\* and a call that finds the flag set returns at once: it generates nothing,
\* publishes nothing, starts no refresh and leaves nothing behind to run later.
C1_SingleFlight ==
    /\ [](Cardinality(InFlight) <= 1 /\ (is_updating <=> InFlight # {}))
    /\ [][\A t \in Tasks :
            (pc[t] = "guard" /\ is_updating /\ pc'[t] # "guard") =>
                /\ pc'[t] = ReturnLabel(t)
                /\ InFlight' = InFlight
                /\ UNCHANGED <<is_updating, sp500_data, last_update, heap, nobj,
                               market_data, market_summary, calls, clock>>]_vars

\* Two triggers were issued while the initial refresh was in flight, both
\* were dropped, and that refresh is still the only one.
C1_Witness ==
    /\ pc[Sched] = "genwait"
    /\ is_updating
    /\ \A t \in Triggers : outcome[t] = "dropped" /\ pc[t] = "done"
    /\ InFlight = {Sched}
    /\ nobj = 0

\* C2: every refresh that sets is_updating clears it again, whether it
\* completes, fails with an exception or is cancelled.
C2_FlagCleared == is_updating ~> ~is_updating

\* The flag is clear after a refresh that completed, one that failed and one
\* that was cancelled.
C2_Witness ==
    /\ ~is_updating
    /\ \E t, u \in Triggers :
         /\ outcome[t] = "ok" /\ pc[t] = "done"
         /\ outcome[u] = "failed" /\ pc[u] = "done"
    /\ outcome[Sched] = "cancelled" /\ pc[Sched] = "cancelled"

\* C3: a refresh that fails leaves sp500_data (the reference and the contents
\* of the dict) and last_update as they were when it began, the exception
\* does not leave update_sp500_data, and the caller goes on: the background
\* task to its next sleep.
C3_FailureKeepsSnapshot ==
    /\ [](\A t \in Tasks :
            (outcome[t] = "failed" /\ pc[t] \in {"except", "finally"}) =>
                /\ sp500_data = pre[t].data
                /\ heap[sp500_data] = pre[t].content
                /\ last_update = pre[t].time)
    /\ [][\A t \in Tasks :
            (outcome[t] = "failed" /\ pc[t] = "finally" /\ pc'[t] # "finally") =>
                /\ pc'[t] = ReturnLabel(t)
                /\ UNCHANGED <<sp500_data, last_update, heap>>]_vars

\* The background task refreshed with success, slept, failed its second
\* refresh and sleeps again, with the first snapshot still published.
C3_Witness ==
    /\ events = <<"refresh", "sleep", "refresh">>
    /\ calls = 1
    /\ outcome[Sched] = "failed" /\ pc[Sched] = "sleep"
    /\ nsuccess = 1
    /\ sp500_data = lastGood
    /\ last_update # NoTime

\* C4: whenever a reader can run, get_current_data returns the error result
\* if and only if no refresh has completed successfully, and otherwise the
\* snapshot the latest successful refresh published.
C4_ReadersSeeLastGood ==
    running = NoTask =>
        /\ get_current_data.error <=> (nsuccess = 0)
        /\ nsuccess > 0 => get_current_data.ref = lastGood

\* After a success and then a failure, a reader got the snapshot of the
\* successful refresh.
C4_Witness ==
    /\ running = NoTask
    /\ events = <<"refresh", "sleep", "refresh">>
    /\ calls = 1
    /\ outcome[Sched] = "failed"
    /\ nsuccess = 1
    /\ \E r \in Readers : ~held[r].error /\ held[r].ref = lastGood

\* The keys of a published snapshot.
SnapshotKeys ==
    {"last_update", "market_summary", "top_gainers", "top_losers", "most_active",
     "sector_performance", "market_indices"}

\* _calculate_market_summary(_generate_market_data()) for each draw of Draws.
MarketSummary == [d \in Draws |-> calculate_market_summary(MarketData[d])]

\* A dict that holds every field of a snapshot, all of them computed from the
\* market data of one call of _generate_market_data.
Complete(snap) ==
    /\ DOMAIN snap = SnapshotKeys
    /\ \E d \in Draws :
         /\ snap.market_summary = MarketSummary[d]
         /\ snap.top_gainers = MarketData[d].top_gainers
         /\ snap.top_losers = MarketData[d].top_losers
         /\ snap.most_active = MarketData[d].most_active
         /\ snap.sector_performance = MarketData[d].sector_performance
         /\ snap.market_indices = MarketData[d].market_indices

\* C5: publication is atomic.  In every state sp500_data is the empty dict or
\* a complete snapshot of one refresh, and so is whatever a reader holds.
C5_AtomicPublication ==
    /\ heap[sp500_data] = EmptyDict \/ Complete(heap[sp500_data])
    /\ \A r \in Readers : ~held[r].error => Complete(heap[held[r].ref])

\* A reader holds the first snapshot while a second refresh, with other
\* draws, has just published its own.
C5_Witness ==
    /\ nobj = 2
    /\ \E t \in Tasks : pc[t] = "stamp"
    /\ \E r \in Readers :
         /\ ~held[r].error
         /\ held[r].ref = 1
         /\ heap[1].top_gainers # heap[2].top_gainers

\* C6: the background task refreshes first, and from then on every refresh
\* follows exactly one sleep: its refreshes and sleeps alternate, refresh first.
C6_RefreshThenAlternate ==
    \A i \in 1..Len(events) :
        events[i] = IF i % 2 = 1 THEN "refresh" ELSE "sleep"

\* The initial refresh, a sleep, and a second refresh that has begun.
C6_Witness ==
    /\ events = <<"refresh", "sleep", "refresh">>
    /\ pc[Sched] = "gen"
    /\ nobj = 1

\* C7: cancelling a task, in its sleep or in a refresh, leaves the published
\* snapshot empty or complete, and as the cancelled refresh found it; and the
\* flag is not left set by the cancelled task.
C7_CancelSafe ==
    /\ [](\A t \in Tasks :
            pc[t] = "cancelled" =>
                /\ heap[sp500_data] = EmptyDict \/ Complete(heap[sp500_data])
                /\ is_updating => InFlight \ {t} # {})
    /\ [][\A t \in Tasks :
            (pc[t] # "cancelled" /\ pc'[t] = "cancelled") =>
                /\ UNCHANGED <<sp500_data, last_update, heap>>
                /\ outcome'[t] = "cancelled" =>
                       /\ sp500_data' = pre[t].data
                       /\ heap'[sp500_data'] = pre[t].content]_vars

\* The background task was cancelled during a refresh that followed a
\* successful one: the flag is clear and the earlier snapshot is published.
C7_Witness ==
    /\ pc[Sched] = "cancelled"
    /\ outcome[Sched] = "cancelled"
    /\ events = <<"refresh", "sleep", "refresh">>
    /\ calls = 1
    /\ ~is_updating
    /\ nsuccess = 1
    /\ sp500_data = lastGood

\* C8: a dict object is never modified once sp500_data has referred to it: a
\* refresh binds sp500_data to a new object.
C8_SnapshotImmutable ==
    [][\A o \in 0..nobj : heap'[o] = heap[o]]_vars

\* A reader still holds the first snapshot after a later refresh published
\* another one.
C8_Witness ==
    /\ nobj = 2
    /\ sp500_data = 2
    /\ \E r \in Readers :
         /\ ~held[r].error
         /\ held[r].ref = 1
         /\ Complete(heap[1])
         /\ heap[1] # heap[2]

\* The symbols of a list of quotes.
Symbols(lst) == {lst[i].symbol : i \in 1..Len(lst)}

\* C9: over a universe of at least 2*TopN symbols, a refresh yields exactly
\* TopN gainers and TopN losers, and no symbol is in both lists.
C9_TenAndTenDisjoint ==
    rank_out # EmptyDict =>
        /\ Len(rank_out.top_gainers) = TopN
        /\ Len(rank_out.top_losers) = TopN
        /\ Cardinality(Symbols(rank_out.top_gainers)) = TopN
        /\ Cardinality(Symbols(rank_out.top_losers)) = TopN
        /\ Symbols(rank_out.top_gainers) \cap Symbols(rank_out.top_losers) = {}

\* The smallest universe, with every change_percent equal.
C9_Witness ==
    /\ rank_out # EmptyDict
    /\ rank_n = 2 * TopN
    /\ \A i \in 1..rank_n :
         rank_out.all_stocks[i].change_percent = rank_out.all_stocks[1].change_percent

\* lst is a top selection of all by key: ordered down (or up), and no quote
\* left out beats a quote taken.
TopSelection(lst, all, key, down) ==
    /\ Symbols(lst) \subseteq Symbols(all)
    /\ \A i \in 1..Len(lst) : lst[i] = all[lst[i].symbol]
    /\ \A i \in 1..(Len(lst) - 1) :
         IF down THEN lst[i][key] >= lst[i + 1][key] ELSE lst[i][key] <= lst[i + 1][key]
    /\ \A i \in 1..Len(lst) : \A j \in 1..Len(all) :
         all[j].symbol \notin Symbols(lst) =>
             IF down THEN lst[i][key] >= all[j][key] ELSE lst[i][key] <= all[j][key]

\* C10: top_gainers is a top-TopN selection by change_percent, highest first;
\* top_losers by change_percent, lowest first; most_active by volume,
\* highest first.
C10_RankingsCorrect ==
    rank_out # EmptyDict =>
        /\ Len(rank_out.most_active) = TopN
        /\ TopSelection(rank_out.top_gainers, rank_out.all_stocks, "change_percent", TRUE)
        /\ TopSelection(rank_out.top_losers, rank_out.all_stocks, "change_percent", FALSE)
        /\ TopSelection(rank_out.most_active, rank_out.all_stocks, "volume", TRUE)

\* The universe of the service, with pairwise distinct changes but for one
\* tie, and tied volumes.
C10_Witness ==
    /\ rank_out # EmptyDict
    /\ rank_n = NumSymbols
    /\ rank_draw.m > NumSymbols
    /\ rank_draw.p = TopN
    /\ rank_draw.m2 = 3
    /\ rank_out.top_gainers[1].change_percent > rank_out.top_gainers[TopN].change_percent

\* The quote list ranked anew by change_percent, lowest first: a quote goes
\* behind every quote with a smaller change, and behind the quotes with the
\* same change that precede it in the list.
ReRanked(all) ==
    LET n == Len(all)
        rank(i) == 1 + Cardinality({j \in 1..n : all[j].change_percent < all[i].change_percent})
                     + Cardinality({j \in 1..(i - 1) :
                                       all[j].change_percent = all[i].change_percent})
    IN  [p \in 1..n |-> all[CHOOSE i \in 1..n : rank(i) = p]]

\* The dict a refresh publishes from the market data of the ranking
\* specification.
RankSnapshot == BuildSnapshot(clock, calculate_market_summary(rank_out), rank_out)

C12_RatioRounded ==
    rank_out # EmptyDict =>
        LET summary == calculate_market_summary(rank_out)
            ratio == summary.advance_decline_ratio
            adv == summary.advancing_stocks
            dec == Max(summary.declining_stocks, 1)
        IN  /\ IsNumber(ratio)
            /\ (100 * ratio.num) % ratio.den = 0
            /\ 200 * Abs(ratio.num * dec - adv * ratio.den) <= dec * ratio.den
            /\ summary.declining_stocks = 0 => ratio = RInt(adv)

\* No stock declines and some advance; and a refresh whose quotient is not
\* a multiple of 0.01.
C12_Witness ==
    /\ rank_out # EmptyDict
    /\ calculate_market_summary(rank_out).declining_stocks = 0
    /\ calculate_market_summary(rank_out).advancing_stocks > 0

\* C12 as stated: advance_decline_ratio equals the quotient itself.
C12_ExactQuotient ==
    rank_out # EmptyDict =>
        LET summary == calculate_market_summary(rank_out)
        IN  summary.advance_decline_ratio =
                Rat(summary.advancing_stocks, Max(summary.declining_stocks, 1))

\* The results of the calls of calculate_basic_indicators made so far.
BasicResults == {ta_basic[c] : c \in {k \in Calls : ta_basic[k] # NotCalled}}
Recommended(r) == "recommendation" \in DOMAIN r.result

\* The decision rule of the specification: BUY if buy_score >= 4 or
\* buy_score > sell_score + 1; otherwise SELL if sell_score >= 4 or
\* sell_score > buy_score + 1; otherwise HOLD.
SpecRule(buy_score, sell_score) ==
    IF RLe(RInt(4), buy_score) \/ RLt(RAdd(sell_score, RInt(1)), buy_score) THEN "BUY"
    ELSE IF RLe(RInt(4), sell_score) \/ RLt(RAdd(buy_score, RInt(1)), sell_score) THEN "SELL"
    ELSE "HOLD"
\* Scores from -3 to 9 by halves.
ScoreGrid == {Rat(k, 2) : k \in (0 - 6)..18}
ScoreGridAgrees ==
    \A b \in ScoreGrid : \A q \in ScoreGrid : Recommendation(b, q) = SpecRule(b, q)

\* C13: the recommendation calculate_basic_indicators returns is the one the
\* rule of the specification gives for the scores of the call; and for every
\* pair of scores, reachable or not, the four tests of lines 69-78 in their
\* order give what the rule gives.
C13_RuleAgrees ==
    /\ \A r \in BasicResults :
          Recommended(r) =>
              LET scores == Scores(ta_prices, ta_symbol, r.env)
              IN  r.result.recommendation = SpecRule(scores.buy_score, scores.sell_score)
    /\ ScoreGridAgrees

\* A call that returned SELL through the second test, sell_score >= 4, which
\* the code makes before the test buy_score > sell_score + 1.
C13_Witness ==
    \E r \in BasicResults :
        /\ Recommended(r)
        /\ r.result.recommendation = "SELL"
        /\ RLe(RInt(4), Scores(ta_prices, ta_symbol, r.env).sell_score)

\* C14: for a series of at least MinBars positive prices every call returns
\* exactly one of BUY, SELL, HOLD, and two calls with the same series and
\* symbol, whatever the state of the process, return the same rsi, sma_20
\* and recommendation.
C14_TotalDeterministic ==
    /\ \A r \in BasicResults :
          Len(ta_prices) >= MinBars /\ Positive(ta_prices) =>
              /\ Recommended(r)
              /\ r.result.recommendation \in {"BUY", "SELL", "HOLD"}
    /\ \A r1 \in BasicResults : \A r2 \in BasicResults :
          Recommended(r1) =>
              /\ Recommended(r2)
              /\ r1.result.rsi = r2.result.rsi
              /\ r1.result.sma_20 = r2.result.sma_20
              /\ r1.result.recommendation = r2.result.recommendation

\* Two calls in different process states, on a series long enough for both
\* moving averages.
C14_Witness ==
    /\ ta_basic["second"] # NotCalled
    /\ ta_basic["first"].env # ta_basic["second"].env
    /\ Len(ta_prices) >= LongWindow
    /\ Positive(ta_prices)
    /\ ta_basic["first"].result.recommendation = "BUY"

InRange(x) == IsNumber(x) /\ RLe(RInt(0), x) /\ RLe(x, RInt(100))

\* C15: the oscillator is within [0, 100]: the value _calculate_simple_rsi
\* returns, and every element of the array _calculate_rsi returns.
C15_OscillatorInRange ==
    /\ ta_out.op = "simple_rsi" => InRange(ta_out.value)
    /\ ta_out.op = "rsi" => \A j \in 1..Len(ta_out.value) : InRange(ta_out.value[j])

\* The array of a series with gains and losses, smoothed past the seed, with
\* a last element strictly between 0 and 100.
C15_Witness ==
    /\ ta_out.op = "rsi"
    /\ Len(ta_prices) = MaxRsiBars
    /\ RLt(RInt(0), ta_out.value[MaxRsiBars])
    /\ RLt(ta_out.value[MaxRsiBars], RInt(100))
    /\ ta_out.value[MaxRsiBars] # ta_out.value[1]

StrictlyIncreasing(prices) == \A i \in 1..(Len(prices) - 1) : RLt(prices[i], prices[i + 1])

\* C16: for a strictly increasing series of RsiPeriod + 1 or more prices, whose
\* average loss is zero, both oscillators return 100.
C16_ZeroLossGives100 ==
    Len(ta_prices) >= RsiPeriod + 1 /\ StrictlyIncreasing(ta_prices) =>
        /\ ta_out.op = "simple_rsi" => ta_out.value = RInt(100)
        /\ ta_out.op = "rsi" => \A j \in 1..Len(ta_out.value) : ta_out.value[j] = RInt(100)

\* C17: _calculate_sma(prices, period) has len(prices) - period + 1 elements,
\* element i the mean of prices[i .. i + period - 1].
C17_ValidWindow ==
    ta_out.op = "sma" /\ Len(ta_prices) > 0 =>
        /\ Len(ta_out.value) = Max(0, Len(ta_prices) - ta_out.period + 1)
        /\ \A i \in 1..Len(ta_out.value) :
              ta_out.value[i] =
                  TrueDiv(RSum(SubSeq(ta_prices, i, i + ta_out.period - 1)), RInt(ta_out.period))

\* C18: for a series of MinBars to LongWindow - 1 prices, sma_50 in the
\* result of calculate_indicators is None, and calculate_basic_indicators
\* reports no number as sma_50.
C18_ShortSeriesNoSma50 ==
    Len(ta_prices) >= MinBars /\ Len(ta_prices) < LongWindow /\ Positive(ta_prices) =>
        /\ ta_out.op = "indicators" => ta_out.value.sma_50 = None
        /\ \A r \in BasicResults :
              "sma_50" \in DOMAIN r.result => ~IsNumber(r.result.sma_50)

\* The highest of the first i prices, and the drawdown at i.
RunningMax(prices, i) ==
    CHOOSE x \in {prices[j] : j \in 1..i} : \A j \in 1..i : RLe(prices[j], x)
DrawdownAt(prices, i) ==
    TrueDiv(RSub(prices[i], RunningMax(prices, i)), RunningMax(prices, i))

\* C19: for a non-empty series of positive prices _calculate_max_drawdown
\* returns the least of the drawdowns (price - running maximum) / running
\* maximum; it is at most 0, and 0 exactly when no price is below an
\* earlier one.
C19_MaxDrawdown ==
    ta_out.op = "max_drawdown" /\ Len(ta_prices) > 0 /\ Positive(ta_prices) =>
        /\ IsNumber(ta_out.value)
        /\ RLe(ta_out.value, RInt(0))
        /\ \E i \in 1..Len(ta_prices) : ta_out.value = DrawdownAt(ta_prices, i)
        /\ \A i \in 1..Len(ta_prices) : RLe(ta_out.value, DrawdownAt(ta_prices, i))
        /\ ta_out.value = RInt(0) <=>
              \A i \in 1..(Len(ta_prices) - 1) : RLe(ta_prices[i], ta_prices[i + 1])

\* A long series that ends above its deepest drawdown.
C19_Witness ==
    /\ ta_out.op = "max_drawdown"
    /\ Len(ta_prices) >= LongWindow
    /\ Positive(ta_prices)
    /\ RLt(ta_out.value, RInt(0))
    /\ RLt(ta_out.value, DrawdownAt(ta_prices, Len(ta_prices)))

\* v is x rounded to two decimals.
Rounded2(v, x) ==
    /\ IsNumber(v)
    /\ 100 % v.den = 0
    /\ RLe(RSub(v, x), Rat(1, 200))
    /\ RLe(RSub(x, v), Rat(1, 200))
\* current_price + recent_trend * factor, for the factor num / den.
Projection(prices, num, den) ==
    LET n == Len(prices)
        last == RAdd(RAdd(RAdd(RAdd(prices[n], prices[n - 1]), prices[n - 2]),
                          prices[n - 3]), prices[n - 4])
        prior == RAdd(RAdd(RAdd(RAdd(prices[n - 5], prices[n - 6]), prices[n - 7]),
                           prices[n - 8]), prices[n - 9])
    IN  RAdd(prices[n], RMul(RMul(RSub(last, prior), Rat(1, 5)), Rat(num, den)))

\* C20: for MinPredictionBars or more prices generate_simple_predictions
\* returns current_price + recent_trend * factor rounded to two decimals for
\* the horizons 1d, 7d and 30d, with the factors 0.2, 1 and 3, and the
\* confidence 0.75; for fewer prices, an error and no projection.
C20_Predictions ==
    ta_out.op = "predictions" =>
        IF Len(ta_prices) < MinPredictionBars
        THEN DOMAIN ta_out.value = {"error"}
        ELSE /\ DOMAIN ta_out.value = {"1d", "7d", "30d", "confidence"}
             /\ Rounded2(ta_out.value["1d"], Projection(ta_prices, 1, 5))
             /\ Rounded2(ta_out.value["7d"], Projection(ta_prices, 1, 1))
             /\ Rounded2(ta_out.value["30d"], Projection(ta_prices, 3, 1))
             /\ ta_out.value["confidence"] = Rat(3, 4)

\* Projections of a series with a trend, the 1d projection not a whole
\* number of cents before rounding.
C20_Witness ==
    /\ ta_out.op = "predictions"
    /\ Len(ta_prices) >= MinPredictionBars
    /\ ta_out.value["1d"] # Projection(ta_prices, 1, 5)
    /\ ta_out.value["7d"] # ta_out.value["30d"]

\* C21: the base price a refresh uses for a symbol depends only on the
\* symbol: it is the same in every refresh of every run of the process,
\* whatever the draws.
C21_BasePriceBySymbol ==
    \A r1 \in Runs, r2 \in Runs :
        \A i \in 1..Len(run_quotes[r1]), j \in 1..Len(run_quotes[r2]) :
            run_quotes[r1][i].base_price = run_quotes[r2][j].base_price

\* The oscillator values from 0 to 100 by halves, and the oscillator of the
\* series that a call of calculate_basic_indicators has scored.
RsiGrid == {Rat(k, 2) : k \in 0..200}
ScoredRsi ==
    IF \E r \in BasicResults : Recommended(r)
    THEN {calculate_simple_rsi(ta_prices)} ELSE {}

\* The cases of the oscillator, in the order of the claim, and what each
\* adds to <<buy_score, sell_score>>.
RsiCases(rsi) ==
    {c \in 1..5 :
        CASE c = 1 -> RLt(rsi, RInt(30))
          [] c = 2 -> RLe(RInt(30), rsi) /\ RLt(rsi, RInt(40))
          [] c = 3 -> RLt(RInt(70), rsi)
          [] c = 4 -> RLt(RInt(60), rsi) /\ RLe(rsi, RInt(70))
          [] c = 5 -> RLe(RInt(40), rsi) /\ RLe(rsi, RInt(60))}
RsiCaseScores == <<<<3, 0>>, <<1, 0>>, <<0, 3>>, <<0, 1>>, <<0, 0>>>>

\* Exactly one case applies to rsi, and lines 38-45 add what it says.
OneRsiCase(rsi) ==
    /\ Cardinality(RsiCases(rsi)) = 1
    /\ \A c \in RsiCases(rsi) : RsiScores(rsi) = RsiCaseScores[c]
RsiGridAgrees == \A rsi \in RsiGrid : OneRsiCase(rsi)

\* C22: the oscillator adds to the scores by exactly one of five cases:
\* below 30, 3 to buy_score; from 30 to below 40, 1 to buy_score; above 70,
\* 3 to sell_score; above 60 up to 70, 1 to sell_score; from 40 to 60,
\* nothing.  It never adds to both scores, nor 3 and 1 to the same score.
C22_OscillatorCases ==
    /\ RsiGridAgrees
    /\ \A rsi \in ScoredRsi : OneRsiCase(rsi)

\* A call scored a series whose oscillator is between 30 and 40: the second
\* test of the chain decided.
C22_Witness ==
    /\ \E r \in BasicResults : Recommended(r)
    /\ RsiCases(calculate_simple_rsi(ta_prices)) = {2}
    /\ Len(ta_prices) >= LongWindow

\* What trend and ordering add together to <<buy_score, sell_score>>.
TrendAndOrdering(price, sma_20, sma_50) ==
    LET t == TrendScores(Trend(price, sma_20, sma_50))
        o == OrderingScores(price, sma_20, sma_50)
    IN  <<t[1] + o[1], t[2] + o[2]>>

\* Every order of three numbers, equalities included, and the price and
\* averages of the series that a call has scored.
OrderGrid == {<<RInt(p), RInt(a), RInt(b)>> : p \in 1..3, a \in 1..3, b \in 1..3}
ScoredPoint ==
    IF \E r \in BasicResults : Recommended(r)
    THEN {<<ta_prices[Len(ta_prices)], MovingAverages(ta_prices).sma_20,
            MovingAverages(ta_prices).sma_50>>}
    ELSE {}

\* C23: trend and moving-average ordering add to the same side: 4 to
\* buy_score and nothing to sell_score when price > sma_20 > sma_50, 4 to
\* sell_score and nothing to buy_score when price < sma_20 < sma_50, and
\* nothing to either in every other case, any equality included.
C23_TrendAndOrdering ==
    \A x \in OrderGrid \cup ScoredPoint :
        LET up == RLt(x[2], x[1]) /\ RLt(x[3], x[2])
            down == RLt(x[1], x[2]) /\ RLt(x[2], x[3])
        IN  TrendAndOrdering(x[1], x[2], x[3]) =
                IF up THEN <<4, 0>> ELSE IF down THEN <<0, 4>> ELSE <<0, 0>>

\* A call scored a series of more than 50 prices whose price is above the
\* 20-period average, itself below the 50-period average.
C23_Witness ==
    /\ \E r \in BasicResults : Recommended(r)
    /\ Len(ta_prices) >= LongWindow
    /\ RLt(MovingAverages(ta_prices).sma_20, ta_prices[Len(ta_prices)])
    /\ RLt(MovingAverages(ta_prices).sma_20, MovingAverages(ta_prices).sma_50)

\* The quotes of all with a change_percent of the given sign (1, -1 or 0).
BySign(all, sign) ==
    {i \in 1..Len(all) :
        CASE sign = 1 -> all[i].change_percent > 0
          [] sign = 0 - 1 -> all[i].change_percent < 0
          [] sign = 0 -> all[i].change_percent = 0}

\* C24: in the market summary of a refresh, advancing_stocks,
\* declining_stocks and unchanged_stocks are the numbers of quotes with
\* change_percent > 0, < 0 and = 0; none is negative, and they sum to
\* total_companies, the number of quotes the refresh generated.
C24_CountsPartition ==
    rank_out # EmptyDict =>
        LET summary == calculate_market_summary(rank_out)
        IN  /\ summary.advancing_stocks = Cardinality(BySign(rank_out.all_stocks, 1))
            /\ summary.declining_stocks = Cardinality(BySign(rank_out.all_stocks, 0 - 1))
            /\ summary.unchanged_stocks = Cardinality(BySign(rank_out.all_stocks, 0))
            /\ summary.advancing_stocks >= 0
            /\ summary.declining_stocks >= 0
            /\ summary.unchanged_stocks >= 0
            /\ summary.advancing_stocks + summary.declining_stocks
                   + summary.unchanged_stocks = summary.total_companies
            /\ summary.total_companies = rank_n
            /\ summary.total_companies = Len(rank_out.all_stocks)

\* A refresh of the whole universe with quotes of each sign, the unchanged
\* ones more than one.
C24_Witness ==
    /\ rank_out # EmptyDict
    /\ rank_n = NumSymbols
    /\ Cardinality(BySign(rank_out.all_stocks, 1)) > 1
    /\ Cardinality(BySign(rank_out.all_stocks, 0 - 1)) > 1
    /\ Cardinality(BySign(rank_out.all_stocks, 0)) > 1

\* The returns of the series, two at least, all have the same value.
SameReturns(prices) ==
    /\ Len(prices) >= 3
    /\ Positive(prices)
    /\ \A i \in 1..(Len(prices) - 1) :
          TrueDiv(RSub(prices[i + 1], prices[i]), prices[i]) =
              TrueDiv(RSub(prices[2], prices[1]), prices[1])

\* C25: for a series whose returns all have the same value, the Sharpe ratio
\* of calculate_indicators is 0 and _calculate_skewness and
\* _calculate_kurtosis return 0; and on no series does one of them raise.
C25_ZeroVarianceNoFault ==
    /\ SameReturns(ta_prices) =>
          /\ (ta_out.op = "indicators" /\ ta_out.value # EmptyRecord) =>
                 ta_out.value.sharpe_ratio = RInt(0)
          /\ ta_out.op \in {"skewness", "kurtosis"} => ta_out.value = RInt(0)
    /\ (ta_out.op = "indicators" /\ ta_out.value # EmptyRecord) =>
          "raised" \notin DOMAIN ta_out.value.sharpe_ratio
    /\ ta_out.op \in {"skewness", "kurtosis"} => "raised" \notin DOMAIN ta_out.value

\* calculate_indicators was applied to a series of 21 prices that doubles at
\* every step: every return is 1.
C25_Witness ==
    /\ SameReturns(ta_prices)
    /\ Len(ta_prices) > MinBars
    /\ ta_prices[1] # ta_prices[2]
    /\ ta_out.op = "indicators"
    /\ ta_out.value.sharpe_ratio = RInt(0)

\* The bars generated so far, and those of the result once returned.
BarLists == {sd_prices} \cup (IF sd_result = None THEN {} ELSE {sd_result.data})

\* C26: every bar of get_stock_data has low <= min(open, close) <=
\* max(open, close) <= high and volume >= 0, and the open of each bar is the
\* close of the bar before it.
C26_BarsWellFormed ==
    \A bars \in BarLists :
        /\ \A i \in 1..Len(bars) :
              /\ RLe(bars[i].low, RMin(bars[i].open, bars[i].close))
              /\ RLe(RMax(bars[i].open, bars[i].close), bars[i].high)
              /\ bars[i].volume >= 0
        /\ \A i \in 2..Len(bars) : bars[i].open = bars[i - 1].close

\* A call has returned bars of which one fell and a later one rose.
C26_Witness ==
    /\ sd_result # None
    /\ Len(sd_result.data) >= 2
    /\ RLt(sd_result.data[1].close, sd_result.data[1].open)
    /\ RLt(sd_result.data[2].open, sd_result.data[2].close)
    /\ RLt(sd_result.data[2].low, sd_result.data[2].open)

\* C27: update_sp500_data has no suspension point between setting and
\* clearing is_updating, so the flag is clear wherever the event loop can
\* switch to another coroutine: no call finds it set when it reaches the
\* guard, and the early return of the guard is never taken.
C27_FlagNeverObserved ==
    /\ running = NoTask => ~is_updating
    /\ \A t \in Tasks : pc[t] = "guard" => ~is_updating
    /\ \A t \in Tasks : outcome[t] # "dropped"

\* The initial refresh and two triggered ones have all passed the guard and
\* ended, one of them with a failure.
C27_Witness ==
    /\ running = NoTask
    /\ calls = MaxCalls
    /\ \A t \in Tasks : outcome[t] \in {"ok", "failed"}
    /\ \E t \in Tasks : outcome[t] = "failed"
    /\ \E t \in Tasks : outcome[t] = "ok"

\* C28: wherever a reader can run, get_last_update_time returns a value
\* exactly when get_current_data returns a snapshot, and once both do,
\* neither goes back to returning none.
C28_PublishedStateCoherent ==
    /\ [](running = NoTask =>
            ((get_last_update_time # NoTime) <=> ~get_current_data.error))
    /\ [][(get_last_update_time # NoTime /\ ~get_current_data.error) =>
            (get_last_update_time' # NoTime /\ ~get_current_data'.error)]_vars

\* A refresh has failed after one that succeeded, and both readers' sources
\* are set.
C28_Witness ==
    /\ running = NoTask
    /\ get_last_update_time # NoTime
    /\ ~get_current_data.error
    /\ nsuccess = 1
    /\ \E t \in Tasks : outcome[t] = "failed" /\ pre[t].time # NoTime

\* The conditions of BUY and of SELL.
BuyHolds(sc) ==
    RLe(RInt(4), sc.buy_score) \/ RLt(RAdd(sc.sell_score, RInt(1)), sc.buy_score)
SellHolds(sc) ==
    RLe(RInt(4), sc.sell_score) \/ RLt(RAdd(sc.buy_score, RInt(1)), sc.sell_score)
Exclusive(sc) ==
    /\ ~(BuyHolds(sc) /\ SellHolds(sc))
    /\ Recommendation(sc.buy_score, sc.sell_score) =
           Recommendation_SellFirst(sc.buy_score, sc.sell_score)

\* Every pair of scores the rule can give: an oscillator of each case and at
\* each limit, every order of price and averages, a variance below, at and
\* above the limit, and every symbol bias from -0.5 to 0.49.
RsiKinds == {RInt(k) : k \in {0, 29, 30, 35, 40, 50, 60, 65, 70, 71, 100}}
VarianceKinds == {RInt(0), Rat(16, 100), Rat(17, 100)}
AddedPairs ==
    {AddScores(RsiScores(rsi), TrendScores(Trend(x[1], x[2], x[3])),
               OrderingScores(x[1], x[2], x[3]), VolatilityScores(v)) :
        rsi \in RsiKinds, x \in OrderGrid, v \in VarianceKinds}
RulePairs == {BiasScores(added, Rat(h - 50, 100)) : added \in AddedPairs, h \in 0..99}
RulePairsExclusive == \A sc \in RulePairs : Exclusive(sc)

\* C29: for every pair of scores the scoring rule can give, and for the
\* scores of every call made, the conditions of BUY and of SELL are never
\* both true, and testing SELL first gives the same recommendation.
C29_BuySellExclusive ==
    /\ RulePairsExclusive
    /\ \A r \in BasicResults :
          Recommended(r) => Exclusive(Scores(ta_prices, ta_symbol, r.env))

\* A call returned SELL on scores of which buy_score is 3 or more: the
\* oscillator and the averages pull to opposite sides.
C29_Witness ==
    \E r \in BasicResults :
        /\ Recommended(r)
        /\ SellHolds(Scores(ta_prices, ta_symbol, r.env))
        /\ RLe(RInt(3), Scores(ta_prices, ta_symbol, r.env).buy_score)

\* The recommendation of a constant series for the symbol hash h: an
\* oscillator of 100, no trend, equal averages and no volatility.
FlatRecommendation(h) ==
    LET added == AddScores(RsiScores(RInt(100)), TrendScores("neutral"),
                           OrderingScores(RInt(1), RInt(1), RInt(1)),
                           VolatilityScores(RInt(0)))
        scores == BiasScores(added, Rat(h - 50, 100))
    IN  Recommendation(scores.buy_score, scores.sell_score)
FlatAlwaysSell == \A h \in 0..99 : FlatRecommendation(h) = "SELL"

====
